---- MODULE Spec2Model ----
(***************************************************************************)
(* Model of the company-report analysis service: the persistent vector     *)
(* store (src/vector_store.py), the report acquisition pipeline            *)
(* (src/company_analyzer.py), the brokerage crawler boundary               *)
(* (src/naver_finance.py) and the session threads (src/app.py).            *)
(*                                                                         *)
(* The specifications share the variables:                                 *)
(*   SpecStore  operations of one VectorStore object and its directory     *)
(*   SpecFetch  download_report calls of one caller, one after the other   *)
(*   SpecPut    add_report calls, also for ids the Catalog already has      *)
(*   SpecPages  the listing pagination of get_reports                      *)
(*   SpecPrimary the choice of the primary filing from a listing            *)
(*   Spec       analysis sessions (analyze_company), one after the other   *)
(*   SpecRace   two session threads in download_report on the shared store *)
(*   SpecSearch retrievals on an index that ingestions and resets change   *)
(*   SpecCorp   stage 1 of a session: get_corp_code and what follows it     *)
(*   SpecQuery  stage 2 of a session: question analysis and the listing     *)
(*   SpecApp    two session threads of app.py, their queues and results     *)
(*   SpecCache  get_naver_reports_from_cache calls on bounded Catalogs       *)
(*   SpecHash   brokerage report ids and writes over process restarts        *)
(*   SpecSplit  the text splitter on bounded texts                           *)
(*   SpecReset  reset_database interleaved with an add_report                *)
(*   SpecOrch   the provider orchestrator                                    *)
(***************************************************************************)
EXTENDS Integers, Sequences, FiniteSets, TLC

VARIABLES
    metadata,      \* VectorStore.metadata: ordered dict rcept_no -> record
    vectorstore,   \* VectorStore.vectorstore: the FAISS entries, in insertion order
    diskMeta,      \* metadata.json in persist_directory
    diskIndex,     \* index.faiss / index.pkl in persist_directory
    clean,         \* history: only successful ingestions since the store was fresh or reset
    lastOp,        \* history: the store operation that completed last, with its outcome
    dlLog,         \* history: the consecutive download_report calls made last (at most 2)
    pg,            \* get_reports: the locals of the call in progress, and its return value
    runs,          \* number of analysis sessions started on the store
    pc,            \* analyze_company: the stage the current session is at
    ses,           \* analyze_company: locals and result of the current session
    downloads,     \* history: per document, how often its text was downloaded from its source
    naverUp,       \* history: some call to the brokerage source did not raise
    faults,        \* number of add_report calls of sessions whose embedding call raised
    thr,           \* the two session threads inside download_report
    overlapped,    \* history: a thread looked a document up while the other was fetching it
    sr,            \* the retrieval made last on the index as it is: its arguments and result
    cc,            \* get_corp_code: arguments and result of the call of the current session
    qa,            \* question analysis of the current session: classifier replies and results
    status_queues, \* app.py status_queues: the session ids that have a queue registered
    queue,         \* the Queue object analyze_stream made for each session
    sent,          \* history: per queue, every message ever put on it, with its emitter
    analysis_results, \* app.py analysis_results: session id -> result record
    status_callback,  \* CompanyAnalyzer.status_callback of the shared analyzer
    job,           \* the session threads of app.py: position, inputs, returned record
    stream,        \* status_stream: per session, the state of its event stream
    answered,      \* history: per session, what get_result answered last
    lr,            \* stage 3 of a session: the listing, the matching filings, reports[0]
    nq,            \* get_naver_reports_from_cache: Catalog, arguments and result of a call
    hs,            \* the hash seed of the running process; history: the ids given to each URL
    sp,            \* text_splitter.split_text: the text of a call and its chunks
    rr,            \* a thread in add_report and a thread in reset_database: their positions
    orch           \* LLMOrchestrator: providers, default_provider, task_routing, last call

storeVars   == <<metadata, vectorstore, diskMeta, diskIndex, clean, lastOp, dlLog>>
histVars    == <<clean, lastOp, dlLog>>
pageVars    == <<pg>>
sessionVars == <<runs, pc, ses, downloads, naverUp, faults>>
raceVars    == <<thr, overlapped>>
callVars    == <<cc, qa>>
fnVars      == <<sr, callVars>>
appVars     == <<status_queues, queue, sent, analysis_results, status_callback, job,
                 stream, answered>>
lateVars    == <<nq, hs, sp, rr, orch>>
vars        == <<storeVars, pageVars, sessionVars, raceVars, fnVars, appVars, lr, lateVars>>

(***************************************************************************)
(* Bounds and enumerated inputs                                            *)
(***************************************************************************)
MaxEntries == 5           \* cap on the number of entries the index may hold
DartIds    == {"R1", "R2"}                 \* registry accession numbers
Companies  == {"KT", "SK"}                 \* company names stored with a document
CompanyOf(rcept_no) == IF rcept_no = "R2" THEN "SK" ELSE "KT"   \* the company a filing belongs to
Filters    == {"", "KT", "kt", "SK"}       \* company filters of a retrieval
TextOf(rcept_no) == IF rcept_no = "R2" THEN 1001 ELSE 400       \* the text of a filing, by its length
TextLens   == {400, 1001}            \* non-empty texts, by their length in characters
NoText     == 0                            \* the empty text ""

CHUNK_SIZE    == 1000
CHUNK_OVERLAP == 200

(***************************************************************************)
(* Pure helpers                                                            *)
(***************************************************************************)
\* str.upper() on the names used here
Upper(c) == IF c = "kt" THEN "KT" ELSE c

Take(s, n) == IF Len(s) <= n THEN s ELSE SubSeq(s, 1, n)

RECURSIVE SumSeq(_)
SumSeq(s) == IF s = <<>> THEN 0 ELSE Head(s) + SumSeq(Tail(s))

\* len(text_splitter.split_text(content)) for a text without separators: windows of
\* CHUNK_SIZE characters, consecutive windows sharing CHUNK_OVERLAP characters
NumChunks(len) ==
    IF len = 0 THEN 0
    ELSE IF len <= CHUNK_SIZE THEN 1
    ELSE ((len - CHUNK_OVERLAP) + (CHUNK_SIZE - CHUNK_OVERLAP) - 1)
             \div (CHUNK_SIZE - CHUNK_OVERLAP)

(***************************************************************************)
(* The store: Catalog (metadata) and Vector Index (vectorstore)            *)
(***************************************************************************)
\* a file of persist_directory: missing, left half written by a failed save, or
\* holding the data of the last successful save
Absent  == [state |-> "absent", data |-> <<>>]
Corrupt == [state |-> "corrupt", data |-> <<>>]
OnDisk(data) == [state |-> "saved", data |-> data]

\* the placeholder document a new FAISS index is created with
InitEntry == [kind |-> "init", rcept_no |-> "", company_name |-> "",
              chunk_index |-> 0, total_chunks |-> 0]

ChunkEntry(rcept_no, company_name, i, n) ==
    [kind |-> "chunk", rcept_no |-> rcept_no, company_name |-> company_name,
     chunk_index |-> i, total_chunks |-> n]

EmptyMetadata == <<>>

Keys(md) == {md[i].rcept_no : i \in 1..Len(md)}

check_report_exists(md, rcept_no) == rcept_no \in Keys(md)

Record(md, rcept_no) ==
    md[CHOOSE i \in 1..Len(md) : md[i].rcept_no = rcept_no]

\* report_info.get('full_content'); None is modelled as the empty text
get_report_from_cache(md, rcept_no) ==
    IF ~check_report_exists(md, rcept_no) THEN NoText
    ELSE Record(md, rcept_no).full_content

\* self.metadata[rcept_no] = {...}: an existing key keeps its position
PutRecord(md, rec) ==
    IF rec.rcept_no \in Keys(md)
    THEN [i \in 1..Len(md) |-> IF md[i].rcept_no = rec.rcept_no THEN rec ELSE md[i]]
    ELSE Append(md, rec)

DelRecord(md, rcept_no) ==
    LET Keep(r) == r.rcept_no # rcept_no IN SelectSeq(md, Keep)

\* the Document objects add_report builds for one report
ReportDocumentsMut(rcept_no, company_name, content) ==
    [i \in 1..(NumChunks(content) - 1) |->
        ChunkEntry(rcept_no, company_name, i - 1, NumChunks(content))]

ReportDocuments(rcept_no, company_name, content) ==
    [i \in 1..NumChunks(content) |->
        ChunkEntry(rcept_no, company_name, i - 1, NumChunks(content))]

\* the Catalog record add_report stores
ReportRecord(rcept_no, company_name, content) ==
    [rcept_no |-> rcept_no, company_name |-> company_name,
     num_chunks |-> NumChunks(content), content_length |-> content,
     full_content |-> content]

EntriesOf(vs, rcept_no) ==
    LET Mine(e) == e.kind = "chunk" /\ e.rcept_no = rcept_no IN SelectSeq(vs, Mine)

DocEntries(vs) ==
    LET IsChunk(e) == e.kind = "chunk" IN SelectSeq(vs, IsChunk)

\* get_stats
get_stats(md) ==
    [total_reports    |-> Len(md),
     total_chunks     |-> SumSeq([i \in 1..Len(md) |-> md[i].num_chunks]),
     total_size_chars |-> SumSeq([i \in 1..Len(md) |-> md[i].content_length]),
     num_companies    |-> Cardinality({md[i].company_name : i \in 1..Len(md)})]

\* the orders in which a similarity search can rank n entries by distance
Perms(n) == {f \in [1..n -> 1..n] : \A i, j \in 1..n : f[i] = f[j] => i = j}

\* search_similar_reports: the 3k nearest entries, filtered by company when a
\* filter is given, cut to k; order is the ranking by ascending distance
\* doc.metadata.get('company_name', '').upper() == company_name.upper()
CompanyMatchMut(e, company_name) == TRUE

CompanyMatch(e, company_name) == Upper(e.company_name) = Upper(company_name)

search_similar_reports_mut(vs, order, company_name, k) ==
    LET results == Take([i \in 1..Len(vs) |-> vs[order[i]]], k)
        Match(e) == CompanyMatch(e, company_name)
    IN  IF company_name # ""
        THEN Take(SelectSeq(results, Match), k)
        ELSE Take(results, k)

search_similar_reports(vs, order, company_name, k) ==
    LET results == Take([i \in 1..Len(vs) |-> vs[order[i]]], 3 * k)
        Match(e) == CompanyMatch(e, company_name)
    IN  IF company_name # ""
        THEN Take(SelectSeq(results, Match), k)
        ELSE Take(results, k)

\* _load_or_create_vectorstore: load index.faiss when it exists and loads, else a
\* new index holding the placeholder document
LoadOrCreateVectorstore(disk) ==
    IF disk.state # "saved" THEN <<InitEntry>> ELSE disk.data

\* _load_metadata: {} when the file is missing or does not parse
LoadMetadata(disk) ==
    IF disk.state # "saved" THEN EmptyMetadata ELSE disk.data

\* _save_metadata / _save_vectorstore swallow every exception: a failed save
\* leaves the old file, or a half written one
SaveOutcomes == {"ok", "fail", "torn"}

Saved(outcome, old, new) ==
    CASE outcome = "ok"   -> OnDisk(new)
      [] outcome = "fail" -> old
      [] outcome = "torn" -> Corrupt

\* get_corp_code returns None
NotFound == [code |-> 0, name |-> "", stock |-> ""]

\* no question analysis in this session yet
NoQuery == [stage |-> "start", years_kind |-> "", years_given |-> 0, years |-> 0,
            types_kind |-> "", types |-> <<>>]

\* no call of get_corp_code in this session yet
NoLookup == [run |-> 0, variations |-> <<>>, file |-> [raise |-> FALSE, list |-> <<>>],
             tried |-> 0, result |-> NotFound]

\* no retrieval was made on the index as it is now
NoSearch == [done |-> FALSE, company_name |-> "", k |-> 0, order |-> <<>>,
             raised |-> FALSE, result |-> <<>>]

(***************************************************************************)
(* Store operations (src/vector_store.py)                                  *)
(***************************************************************************)
\* what the environment does to one add_report call: the embedding call inside
\* add_documents raises or not, and each of the two saves succeeds or not
AddOutcomes ==
    {[embed |-> "raise", idx |-> "ok", meta |-> "ok"]}
        \cup [embed : {"ok"}, idx : SaveOutcomes, meta : SaveOutcomes]

\* add_report: chunk, add the entries to the index, set the Catalog record,
\* save both; any exception is caught and printed
add_report(rcept_no, company_name, content, o) ==
    IF o.embed = "raise"
    THEN UNCHANGED <<metadata, vectorstore, diskMeta, diskIndex>>
    ELSE /\ vectorstore' = vectorstore \o ReportDocuments(rcept_no, company_name, content)
         /\ metadata' = PutRecord(metadata, ReportRecord(rcept_no, company_name, content))
         /\ diskIndex' = Saved(o.idx, diskIndex, vectorstore')
         /\ diskMeta' = Saved(o.meta, diskMeta, metadata')

Fits(content) == Len(vectorstore) + NumChunks(content) <= MaxEntries

\* a caller ingests a document that is not in the Catalog
AddReport(rcept_no, company_name, content, o) ==
    /\ ~check_report_exists(metadata, rcept_no)
    /\ Fits(content)
    /\ add_report(rcept_no, company_name, content, o)
    /\ clean' = (clean /\ o.embed = "ok")
    /\ lastOp' = "add"
    /\ dlLog' = <<>>
    /\ sr' = NoSearch
    /\ UNCHANGED <<pageVars, sessionVars, raceVars, appVars, callVars, lr, lateVars>>

\* delete_report: removes the Catalog record only and saves the Catalog
DeleteReport(rcept_no, metaSave) ==
    /\ check_report_exists(metadata, rcept_no)
    /\ metadata' = DelRecord(metadata, rcept_no)
    /\ diskMeta' = Saved(metaSave, diskMeta, metadata')
    /\ UNCHANGED <<vectorstore, diskIndex>>
    /\ clean' = FALSE
    /\ lastOp' = "delete"
    /\ dlLog' = <<>>
    /\ sr' = NoSearch
    /\ UNCHANGED <<pageVars, sessionVars, raceVars, appVars, callVars, lr, lateVars>>

\* the documents rebuild_index collects from the Catalog, in Catalog order
RECURSIVE AllDocuments(_)
AllDocuments(md) ==
    IF md = <<>> THEN <<>>
    ELSE ReportDocuments(Head(md).rcept_no, Head(md).company_name, Head(md).full_content)
             \o AllDocuments(Tail(md))

\* rebuild_index: a new index from the Catalog texts, saved; nothing when the
\* Catalog has no text
RebuildIndex(idxSave) ==
    /\ AllDocuments(metadata) # <<>>
    /\ vectorstore' = AllDocuments(metadata)
    /\ diskIndex' = Saved(idxSave, diskIndex, vectorstore')
    /\ UNCHANGED <<metadata, diskMeta>>
    /\ clean' = FALSE
    /\ lastOp' = "rebuild"
    /\ dlLog' = <<>>
    /\ sr' = NoSearch
    /\ UNCHANGED <<pageVars, sessionVars, raceVars, appVars, callVars, lr, lateVars>>

\* reset_database: empty the Catalog and save it, remove the index files,
\* create a new index; an exception after the first step returns False
ResetOutcomes == [meta : SaveOutcomes, step : {"ok", "remove_fail", "create_fail"}]

reset_database_mut(o) ==
    /\ metadata' = EmptyMetadata
    /\ diskMeta' = Saved(o.meta, diskMeta, metadata')
    /\ diskIndex' = IF o.step = "remove_fail" THEN diskIndex ELSE Absent
    /\ vectorstore' = vectorstore

reset_database(o) ==
    /\ metadata' = EmptyMetadata
    /\ diskMeta' = Saved(o.meta, diskMeta, metadata')
    /\ diskIndex' = IF o.step = "remove_fail" THEN diskIndex ELSE Absent
    /\ vectorstore' = IF o.step = "ok" THEN LoadOrCreateVectorstore(diskIndex')
                      ELSE vectorstore

ResetDatabase(o) ==
    /\ reset_database(o)
    /\ clean' = (o.step = "ok")
    /\ lastOp' = IF o.step = "ok" THEN "reset_true" ELSE "reset_false"
    /\ dlLog' = <<>>
    /\ sr' = NoSearch
    /\ UNCHANGED <<pageVars, sessionVars, raceVars, appVars, callVars, lr, lateVars>>

\* the process ends and a new one constructs VectorStore() on the same directory
Restart ==
    /\ vectorstore' = LoadOrCreateVectorstore(diskIndex)
    /\ metadata' = LoadMetadata(diskMeta)
    /\ UNCHANGED <<diskMeta, diskIndex>>
    /\ clean' = FALSE
    /\ lastOp' = "restart"
    /\ dlLog' = <<>>
    /\ sr' = NoSearch
    /\ UNCHANGED <<pageVars, sessionVars, raceVars, appVars, callVars, lr, lateVars>>

(***************************************************************************)
(* download_report (src/company_analyzer.py), called by a single caller    *)
(***************************************************************************)
\* the registry's answer to document.xml after text extraction: an exception,
\* or the extracted text (possibly empty)
FetchOutcomes ==
    {[raise |-> TRUE, text |-> NoText]}
        \cup {[raise |-> FALSE, text |-> t] : t \in TextLens \cup {NoText}}

CacheHitMut(md, rcept_no) ==
    check_report_exists(md, rcept_no) /\ get_report_from_cache(md, rcept_no) = NoText

\* download_report uses the Catalog when the id exists and its stored text is not empty
CacheHit(md, rcept_no) ==
    check_report_exists(md, rcept_no) /\ get_report_from_cache(md, rcept_no) # NoText

\* the text download_report returns
DownloadText(md, rcept_no, fetch) ==
    IF CacheHit(md, rcept_no) THEN get_report_from_cache(md, rcept_no)
    ELSE IF fetch.raise THEN NoText
    ELSE fetch.text

\* download_report stores the text when it is non-empty and company_name,
\* report_name and report_date are all given
DownloadStores(md, rcept_no, prov, fetch) ==
    /\ ~CacheHit(md, rcept_no)
    /\ ~fetch.raise
    /\ fetch.text # NoText
    /\ prov

\* the download_report call made just before, if any
LastCall(log) == IF log = <<>> THEN <<>> ELSE <<log[Len(log)]>>

DownloadReport(rcept_no, company_name, prov, fetch, o) ==
    /\ IF DownloadStores(metadata, rcept_no, prov, fetch)
       THEN Fits(fetch.text) /\ add_report(rcept_no, company_name, fetch.text, o)
       ELSE UNCHANGED <<metadata, vectorstore, diskMeta, diskIndex>>
    /\ clean' = (clean /\ (DownloadStores(metadata, rcept_no, prov, fetch) => o.embed = "ok"))
    /\ lastOp' = "download"
    /\ dlLog' = LastCall(dlLog) \o
                <<[doc     |-> rcept_no,
                   absent  |-> ~check_report_exists(metadata, rcept_no),
                   prov    |-> prov,
                   fetched |-> ~CacheHit(metadata, rcept_no),
                   wrote   |-> DownloadStores(metadata, rcept_no, prov, fetch),
                   stored  |-> DownloadStores(metadata, rcept_no, prov, fetch) /\ o.embed = "ok",
                   ret     |-> DownloadText(metadata, rcept_no, fetch)]>>
    /\ sr' = NoSearch
    /\ UNCHANGED <<pageVars, sessionVars, raceVars, appVars, callVars, lr, lateVars>>

\* a caller writes a document whose id is in the Catalog, with another text
PutAgain(rcept_no, company_name, content, o) ==
    /\ check_report_exists(metadata, rcept_no)
    /\ content # get_report_from_cache(metadata, rcept_no)
    /\ Fits(content)
    /\ add_report(rcept_no, company_name, content, o)
    /\ clean' = FALSE
    /\ lastOp' = "put_again"
    /\ dlLog' = <<>>
    /\ sr' = NoSearch
    /\ UNCHANGED <<pageVars, sessionVars, raceVars, appVars, callVars, lr, lateVars>>

InitStore ==
    /\ metadata = EmptyMetadata
    /\ vectorstore = <<InitEntry>>
    /\ diskMeta = Absent
    /\ diskIndex = Absent
    /\ clean = TRUE
    /\ lastOp = "init"
    /\ dlLog = <<>>

NextStore ==
    \/ \E d \in DartIds, o \in AddOutcomes :
           AddReport(d, CompanyOf(d), TextOf(d), o)
    \/ \E d \in DartIds, m \in SaveOutcomes : DeleteReport(d, m)
    \/ \E i \in SaveOutcomes : RebuildIndex(i)
    \/ \E o \in ResetOutcomes : ResetDatabase(o)
    \/ Restart

\* callers of add_report, with ids the Catalog has and ids it does not have
NextPut ==
    \/ \E d \in DartIds, o \in AddOutcomes :
           AddReport(d, CompanyOf(d), TextOf(d), o)
    \/ \E d \in DartIds, content \in TextLens, o \in AddOutcomes :
           PutAgain(d, CompanyOf(d), content, o)

\* one caller making download_report calls one after the other on the store
NextFetch ==
    \/ \E d \in DartIds, p \in BOOLEAN, f \in FetchOutcomes, o \in AddOutcomes :
           DownloadReport(d, CompanyOf(d), p, f, o)

(***************************************************************************)
(* get_reports (src/company_analyzer.py): the listing pagination           *)
(***************************************************************************)
max_pages == 10

\* report names the registry lists, and the report types a call looks for
ReportNames == {"annual_2023", "half_2024", "notice"}
TypeLists   == {<<"annual", "half">>, <<"annual">>, <<"quarterly">>}

\* report_type in report_name
TypeIn(report_type, report_name) ==
    \/ report_type = "annual" /\ report_name = "annual_2023"
    \/ report_type = "half" /\ report_name = "half_2024"

\* some report type is part of the name
Matches(report_types, report_name) ==
    \E i \in 1..Len(report_types) : TypeIn(report_types[i], report_name)

\* the registry's answer to one list.json request: an HTTP error (raise_for_status
\* raises), a status other than '000', or status '000' with a list of reports
PageLists == {<<>>, <<"notice">>, <<"half_2024">>, <<"notice", "annual_2023">>}
PageResponses ==
    {[kind |-> "http_error", list |-> <<>>], [kind |-> "status_error", list |-> <<>>]}
        \cup {[kind |-> "ok", list |-> l] : l \in PageLists}

\* filtered_reports: the collected reports whose name has a report type, in order
Filtered(report_types, all_reports) ==
    LET Hit(n) == Matches(report_types, n) IN SelectSeq(all_reports, Hit)

found_target_mut(report_types, page_reports) == FALSE

found_target(report_types, page_reports) ==
    \E i \in 1..Len(page_reports) : Matches(report_types, page_reports[i])

\* the loop condition of the pagination
MorePagesMut(page_no) == TRUE

MorePages(page_no) == page_no <= max_pages

NoCall == [status |-> "idle", report_types |-> <<>>, page_no |-> 0, requests |-> 0,
           all_reports |-> <<>>, result |-> <<>>]

\* get_reports is called: the locals before the first iteration
GetReports(report_types) ==
    /\ pg.status # "loop"
    /\ pg' = [status |-> "loop", report_types |-> report_types, page_no |-> 1,
              requests |-> 0, all_reports |-> <<>>, result |-> <<>>]
    /\ UNCHANGED <<storeVars, sessionVars, raceVars, appVars, fnVars, lr, lateVars>>

\* one iteration of the while loop: the request, the handling of its answer, and,
\* when the loop ends with it, the filtering and the return
ListPage(resp) ==
    /\ pg.status = "loop"
    /\ MorePages(pg.page_no)
    /\ LET all   == IF resp.kind = "ok" THEN pg.all_reports \o resp.list
                    ELSE pg.all_reports
           brk   == \/ resp.kind # "ok"
                    \/ resp.list = <<>>
                    \/ found_target(pg.report_types, resp.list)
           next  == IF brk THEN pg.page_no ELSE pg.page_no + 1
           ends  == brk \/ ~MorePages(next)
       IN  pg' = [pg EXCEPT
                    !.requests = @ + 1,
                    !.all_reports = all,
                    !.page_no = next,
                    !.status = IF ends THEN "returned" ELSE "loop",
                    !.result = IF resp.kind = "http_error" \/ ~ends THEN <<>>
                               ELSE Filtered(pg.report_types, all)]
    /\ UNCHANGED <<storeVars, sessionVars, raceVars, appVars, fnVars, lr, lateVars>>

InitPages == pg = NoCall

NextPages ==
    \/ \E t \in TypeLists : GetReports(t)
    \/ \E r \in PageResponses : ListPage(r)

(***************************************************************************)
(* The primary filing: get_reports' filter and reports[0] of analyze_company *)
(***************************************************************************)
MaxListed == 3            \* cap on the number of filings a listing holds

\* rcept_dt of a listed filing, YYYYMMDD
RceptDates == {20230315, 20240814, 20241120}

ListedReports == [report_nm : ReportNames, rcept_dt : RceptDates]

\* list.json is asked without a sort parameter: the registry lists by receipt
\* date, newest first, over all pages
NewestFirst(l) == \A i, j \in 1..Len(l) : i < j => l[i].rcept_dt >= l[j].rcept_dt

Listings ==
    {l \in UNION {[1..n -> ListedReports] : n \in 0..MaxListed} : NewestFirst(l)}

\* filtered_reports, on listed filings: those whose report_nm has a report type
filtered_reports(report_types, all_reports) ==
    LET Hit(r) == Matches(report_types, r.report_nm) IN SelectSeq(all_reports, Hit)

\* latest_report = reports[0]
latest_report_mut(reports) == reports[Len(reports)]

latest_report(reports) == reports[1]

NoSelection == [done |-> FALSE, report_types |-> <<>>, all_reports |-> <<>>,
                reports |-> <<>>, primary |-> <<>>]

\* get_reports returns the filtered listing and analyze_company takes its primary
\* filing; an empty result ends the session without one
LatestReport ==
    /\ ~lr.done
    /\ \E report_types \in TypeLists, all_reports \in Listings :
          LET reports == filtered_reports(report_types, all_reports)
          IN  lr' = [done |-> TRUE, report_types |-> report_types,
                     all_reports |-> all_reports, reports |-> reports,
                     primary |-> IF reports = <<>> THEN <<>>
                                 ELSE <<latest_report(reports)>>]
    /\ UNCHANGED <<storeVars, pageVars, sessionVars, raceVars, fnVars, appVars>>

InitPrimary == lr = NoSelection

NextPrimary == LatestReport /\ UNCHANGED lateVars

(***************************************************************************)
(* analyze_company (src/company_analyzer.py): sessions, one after the other *)
(***************************************************************************)
MaxSessions == 2          \* cap on the number of sessions started on one store
MaxFaults   == 2          \* cap on the number of embedding failures the sessions meet

FoundName    == "KT"                 \* the company every session asks about
PrimaryId    == "R1"                 \* reports[0]: the filing get_reports lists first
SuppLists    == {<<>>, <<"R3">>}   \* what get_analyst_reports can list
CompanyUrls  == {"u1", "u2", "u3"}   \* PDF URLs of the portal's company reports
IndustryUrls == {"i1", "i2"}         \* PDF URLs of the portal's industry reports
NaverText    == 400                  \* the text of a brokerage PDF, by its length
NoneValue    == "None"               \* Python's None in a result field

CompanyCacheMin  == 3     \* cached company reports that make the crawl unnecessary
IndustryCacheMin == 2     \* cached industry reports that make the crawl unnecessary
RetrievalK       == 20    \* k of the retrieval in analyze_company

\* str(hash(report_url)) within one process
HashStr(url) == "h" \o url

\* rcept_no_hash = f"{report_type_prefix}_{hash(report_url)}"
NaverId(prefix, url) == prefix \o "_" \o HashStr(url)

\* rcept_no.startswith(report_type), over the ids the model can form
StartsWith(rcept_no, prefix) ==
    \E u \in CompanyUrls \cup IndustryUrls : rcept_no = NaverId(prefix, u)

AllDocs == {"R1", "R3"} \cup CompanyUrls \cup IndustryUrls

\* get_naver_reports_from_cache: the brokerage records of the kind, for company
\* reports those of the company; the industry keywords of the sessions are the same
\* list, which is also the tag set stored, so every industry record matches
get_naver_reports_from_cache(md, company_name, report_type) ==
    LET Mine(r) == /\ StartsWith(r.rcept_no, report_type)
                   /\ (report_type = "NAVER_COMPANY" => r.company_name = company_name)
        Entry(r) == [url |-> r.rcept_no, content |-> r.full_content]
        hits == SelectSeq(md, Mine)
    IN  [i \in 1..Len(hits) |-> Entry(hits[i])]

\* what one crawl of the portal does: it raises, or returns the reports whose PDF it
\* downloaded and extracted
CrawlOutcomes(lists) ==
    {[raise |-> TRUE, list |-> <<>>]} \cup {[raise |-> FALSE, list |-> l] : l \in lists}

CompanyCrawls  == CrawlOutcomes({<<>>, <<"u1", "u2">>, <<"u1", "u2", "u3">>})
IndustryCrawls == CrawlOutcomes({<<>>, <<"i1">>, <<"i1", "i2">>})

Crawled(out) == [i \in 1..Len(out.list) |-> [url |-> out.list[i], content |-> NaverText]]

\* the brokerage reports a session works with: the cached ones when there are at
\* least min of them, else the crawl's, and nothing when the crawl raises
UseCache(cached, min) == Len(cached) >= min

NaverReports(cached, min, out) ==
    IF UseCache(cached, min) THEN Take(cached, min)
    ELSE IF out.raise THEN <<>>
    ELSE Crawled(out)

\* in a session the two saves of add_report succeed; the embedding call may raise
SessionAdds == {o \in AddOutcomes : o.idx = "ok" /\ o.meta = "ok"}

\* the registry's answers for a filing of the session's company
SessionFetches(rcept_no) ==
    {f \in FetchOutcomes : f.text \in {NoText, TextOf(rcept_no)}}

Bump(dl, doc) == [dl EXCEPT ![doc] = IF @ >= 2 THEN 2 ELSE @ + 1]

RECURSIVE BumpAll(_, _)
BumpAll(dl, docs) ==
    IF docs = <<>> THEN dl ELSE BumpAll(Bump(dl, Head(docs)), Tail(docs))

\* result and locals of a session before stage 1
NewSession ==
    [report_content |-> NoText, pending |-> <<>>, additional |-> <<>>,
     naver_company |-> <<>>, company_from_cache |-> FALSE,
     naver_industry |-> <<>>, industry_from_cache |-> FALSE,
     todo |-> <<>>, success |-> FALSE, error |-> NoneValue, analysis |-> NoneValue,
     fatal |-> "", errs |-> {}, acts |-> {}, again |-> FALSE, llm |-> "",
     rewrote |-> FALSE, missed |-> FALSE, changed |-> FALSE, lost |-> FALSE]

\* download_report as one step of a session: the text it returns
SessionText(rcept_no, f) == DownloadText(metadata, rcept_no, f)

\* download_report as one step of a session: its effect on the store and on the
\* download history
SessionDownload(rcept_no, f, o) ==
    /\ IF DownloadStores(metadata, rcept_no, TRUE, f)
       THEN add_report(rcept_no, FoundName, f.text, o)
       ELSE UNCHANGED <<metadata, vectorstore, diskMeta, diskIndex>>
    /\ downloads' = IF ~CacheHit(metadata, rcept_no) /\ ~f.raise /\ f.text # NoText
                    THEN Bump(downloads, rcept_no) ELSE downloads

\* download_report called add_report and add_report did not store the document
WriteFailed(rcept_no, f, o) ==
    DownloadStores(metadata, rcept_no, TRUE, f) /\ o.embed = "raise"

Noted(b, e) == IF b THEN {e} ELSE {}

\* download_report calls add_report for an id the Catalog has
Rewrites(rcept_no, f) ==
    DownloadStores(metadata, rcept_no, TRUE, f) /\ check_report_exists(metadata, rcept_no)

\* the step changes the Catalog or the Vector Index
Touched == metadata' # metadata \/ vectorstore' # vectorstore

\* a crawled report whose document is not in the Catalog
NotStored(prefix, out) ==
    \E i \in 1..Len(out.list) : ~check_report_exists(metadata, NaverId(prefix, out.list[i]))

\* the embedding call of an add_report raises only while failures are left to meet
FaultOk(called, o) == o.embed = "raise" => (called /\ faults < MaxFaults)

Faulted(called, o) == faults + (IF called /\ o.embed = "raise" THEN 1 ELSE 0)

\* app.py starts analyze_company for a request
StartSession ==
    /\ pc \in {"idle", "done"}
    /\ runs < MaxSessions
    /\ runs' = runs + 1
    /\ ses' = NewSession
    /\ pc' = "identity"
    /\ cc' = NoLookup
    /\ qa' = NoQuery
    /\ UNCHANGED <<downloads, naverUp, faults, storeVars, pageVars, raceVars, appVars, sr, lr, lateVars>>

\* stage 1: get_corp_code finds the company or not
Identity(found) ==
    /\ pc = "identity"
    /\ ses' = IF found THEN ses
              ELSE [ses EXCEPT !.fatal = "identity", !.error = "company_not_found"]
    /\ pc' = IF found THEN "select" ELSE "done"
    /\ UNCHANGED <<runs, downloads, naverUp, faults, storeVars, pageVars, raceVars, appVars, fnVars, lr, lateVars>>

\* the classifier call of _recommend_report_types: a reply, an exception, a reply
\* that does not parse, an empty list; all but the first give the default types
ClassifierOutcomes == {"ok", "raise", "unparseable", "empty"}

\* what get_reports returns to analyze_company: [] after a listing error or when
\* no listed name matches, else the matching filings
ListingOutcomes == {"error", "nomatch", "match"}

\* stages 2 and 3: time range, report types, get_reports; no candidate ends the session
SelectPrimary(cls, listing) ==
    /\ pc = "select"
    /\ LET reports == IF listing = "match" THEN <<PrimaryId>> ELSE <<>>
       IN  /\ ses' = [ses EXCEPT
                        !.errs = @ \cup Noted(cls # "ok", "classifier")
                                   \cup Noted(listing = "error", "listing"),
                        !.fatal = IF reports = <<>> THEN "no_candidates" ELSE @,
                        !.error = IF reports = <<>> THEN "no_reports_found" ELSE @]
           /\ pc' = IF reports = <<>> THEN "done" ELSE "primary"
    /\ UNCHANGED <<runs, downloads, naverUp, faults, storeVars, pageVars, raceVars, appVars, fnVars, lr, lateVars>>

\* if not report_content
EmptyDocumentMut(content) == FALSE

EmptyDocument(content) == content = NoText

\* stage 4: download_report of the primary filing; no text ends the session
Primary(f, o) ==
    /\ pc = "primary"
    /\ FaultOk(DownloadStores(metadata, PrimaryId, TRUE, f), o)
    /\ faults' = Faulted(DownloadStores(metadata, PrimaryId, TRUE, f), o)
    /\ SessionDownload(PrimaryId, f, o)
    /\ LET text == SessionText(PrimaryId, f)
       IN  /\ ses' = [ses EXCEPT
                        !.report_content = text,
                        !.errs = @ \cup Noted(WriteFailed(PrimaryId, f, o), "index_write"),
                        !.rewrote = @ \/ Rewrites(PrimaryId, f),
                        !.lost = WriteFailed(PrimaryId, f, o),
                        !.missed = @ \/ ~check_report_exists(metadata, PrimaryId),
                        !.changed = @ \/ Touched,
                        !.fatal = IF text = NoText THEN "empty_document" ELSE @,
                        !.error = IF EmptyDocument(text) THEN "report_unreadable" ELSE @]
           /\ pc' = IF EmptyDocument(text) THEN "done" ELSE "supp"
    /\ UNCHANGED <<runs, naverUp, histVars, pageVars, raceVars, appVars, fnVars, lr, lateVars>>

\* stage 5, registry: get_analyst_reports lists further filings, [] on an error
SuppListings == {[error |-> TRUE, list |-> <<>>]}
                    \cup {[error |-> FALSE, list |-> l] : l \in SuppLists}

SuppList(out) ==
    /\ pc = "supp"
    /\ ses' = [ses EXCEPT
                 !.pending = out.list,
                 !.errs = @ \cup Noted(out.error, "supplementary"),
                 !.acts = @ \cup {"supp_registry"}]
    /\ pc' = IF out.list = <<>> THEN "naver_company" ELSE "supp_item"
    /\ UNCHANGED <<runs, downloads, naverUp, faults, storeVars, pageVars, raceVars, appVars, fnVars, lr, lateVars>>

\* stage 5, registry: one iteration of download_multiple_reports
SuppItem(f, o) ==
    /\ pc = "supp_item"
    /\ LET rcept_no == Head(ses.pending)
           text == SessionText(rcept_no, f)
       IN  /\ f \in SessionFetches(rcept_no)
           /\ FaultOk(DownloadStores(metadata, rcept_no, TRUE, f), o)
           /\ faults' = Faulted(DownloadStores(metadata, rcept_no, TRUE, f), o)
           /\ SessionDownload(rcept_no, f, o)
           /\ ses' = [ses EXCEPT
                        !.pending = Tail(@),
                        !.additional = IF text # NoText
                                       THEN Append(@, [rcept_no |-> rcept_no, content |-> text])
                                       ELSE @,
                        !.errs = @ \cup Noted(text = NoText, "supplementary")
                                   \cup Noted(WriteFailed(rcept_no, f, o), "index_write"),
                        !.acts = @ \cup Noted(DownloadStores(metadata, rcept_no, TRUE, f), "write"),
                        !.rewrote = @ \/ Rewrites(rcept_no, f),
                        !.missed = @ \/ ~check_report_exists(metadata, rcept_no),
                        !.changed = @ \/ Touched]
           /\ pc' = IF Tail(ses.pending) = <<>> THEN "naver_company" ELSE "supp_item"
    /\ UNCHANGED <<runs, naverUp, histVars, pageVars, raceVars, appVars, fnVars, lr, lateVars>>

\* a crawled report whose document is already in the Catalog
StoredAgain(prefix, out) ==
    \E i \in 1..Len(out.list) : check_report_exists(metadata, NaverId(prefix, out.list[i]))

\* stage 5, brokerage company reports: the cache, else search_company_reports
NaverCompany(out) ==
    /\ pc = "naver_company"
    /\ LET cached == get_naver_reports_from_cache(metadata, FoundName, "NAVER_COMPANY")
           called == ~UseCache(cached, CompanyCacheMin)
       IN  /\ ses' = [ses EXCEPT
                        !.naver_company = NaverReports(cached, CompanyCacheMin, out),
                        !.company_from_cache = ~called,
                        !.acts = @ \cup {"naver_company"},
                        !.again = @ \/ (called /\ StoredAgain("NAVER_COMPANY", out)),
                        !.missed = @ \/ (called /\ NotStored("NAVER_COMPANY", out))]
           /\ naverUp' = (naverUp \/ (called /\ ~out.raise))
           /\ downloads' = IF called THEN BumpAll(downloads, out.list) ELSE downloads
    /\ pc' = "naver_industry"
    /\ UNCHANGED <<runs, faults, storeVars, pageVars, raceVars, appVars, fnVars, lr, lateVars>>

\* new_reports_to_save with the ids the reports are stored under
NewReports(reports, from_cache, prefix) ==
    IF from_cache THEN <<>>
    ELSE [i \in 1..Len(reports) |->
             [rcept_no |-> NaverId(prefix, reports[i].url), content |-> reports[i].content]]

\* the documents Index Synchronization goes through, in its order
SyncList(s) ==
    <<[rcept_no |-> PrimaryId, content |-> s.report_content]>>
        \o s.additional
        \o NewReports(s.naver_company, s.company_from_cache, "NAVER_COMPANY")
        \o NewReports(s.naver_industry, s.industry_from_cache, "NAVER_INDUSTRY")

\* stage 5, brokerage industry reports: the cache, else search_industry_reports
NaverIndustry(out) ==
    /\ pc = "naver_industry"
    /\ LET cached == get_naver_reports_from_cache(metadata, FoundName, "NAVER_INDUSTRY")
           called == ~UseCache(cached, IndustryCacheMin)
           after  == [ses EXCEPT
                        !.naver_industry = NaverReports(cached, IndustryCacheMin, out),
                        !.industry_from_cache = ~called,
                        !.acts = @ \cup {"naver_industry"},
                        !.again = @ \/ (called /\ StoredAgain("NAVER_INDUSTRY", out)),
                        !.missed = @ \/ (called /\ NotStored("NAVER_INDUSTRY", out))]
       IN  /\ ses' = [after EXCEPT !.todo = SyncList(after)]
           /\ naverUp' = (naverUp \/ (called /\ ~out.raise))
           /\ downloads' = IF called THEN BumpAll(downloads, out.list) ELSE downloads
    /\ pc' = "sync"
    /\ UNCHANGED <<runs, faults, storeVars, pageVars, raceVars, appVars, fnVars, lr, lateVars>>

\* if add_content and not self.vector_store.check_report_exists(add_rcept_no)
SyncWrites(md, item) == item.content # NoText /\ ~check_report_exists(md, item.rcept_no)

\* stage 6: one document of Index Synchronization, written when its id is absent
SyncItem(o) ==
    /\ pc = "sync"
    /\ LET item  == Head(ses.todo)
           write == SyncWrites(metadata, item)
       IN  /\ FaultOk(write, o)
           /\ faults' = Faulted(write, o)
           /\ IF write
              THEN add_report(item.rcept_no, FoundName, item.content, o)
              ELSE UNCHANGED <<metadata, vectorstore, diskMeta, diskIndex>>
           /\ ses' = [ses EXCEPT
                        !.todo = Tail(@),
                        !.errs = @ \cup Noted(write /\ o.embed = "raise", "index_write"),
                        !.acts = @ \cup {"sync"} \cup Noted(write, "write"),
                        !.rewrote = @ \/ (write /\ check_report_exists(metadata, item.rcept_no)),
                        !.changed = @ \/ Touched]
    /\ pc' = IF Tail(ses.todo) = <<>> THEN "analyze" ELSE "sync"
    /\ UNCHANGED <<runs, downloads, naverUp, histVars, pageVars, raceVars, appVars, fnVars, lr, lateVars>>

\* the answer generator: a text, an empty text, a quota error, another error
LlmOutcomes == {"text", "empty", "quota", "error"}

\* "429" in error_message or "quota" in error_message.lower()
QuotaErrorMut(llm) == FALSE

QuotaError(llm) == llm = "quota"

\* what analyze_with_gemini_rag returns when the generator raises
ErrorAnalysis(llm) ==
    IF QuotaError(llm) THEN "quota_message" ELSE "analysis_error_message"

\* what analyze_with_gemini_rag returns
LlmAnalysisMut(llm) ==
    CASE llm = "text"  -> "answer"
      [] llm = "empty" -> ""
      [] llm = "quota" -> ""
      [] llm = "error" -> "analysis_error_message"

LlmAnalysis(llm) ==
    CASE llm = "text"  -> "answer"
      [] llm = "empty" -> ""
      [] OTHER         -> ErrorAnalysis(llm)

\* result['analysis'] = analysis; result['success'] = True
AfterAnalysisMut(s, analysis) ==
    [s EXCEPT !.analysis = analysis, !.success = (analysis = "answer")]

AfterAnalysis(s, analysis) ==
    [s EXCEPT !.analysis = analysis, !.success = TRUE]

\* if relevant_chunks: analyze_with_gemini_rag(...) else: the fixed message
AnalysisOfMut(chunks, llm) == LlmAnalysis(llm)

AnalysisOf(chunks, llm) ==
    IF chunks = <<>> THEN "no_evidence_message" ELSE LlmAnalysis(llm)

\* stages 7 and 8: the retrieval, and the answer when chunks were found
Analyze(retr, llm) ==
    /\ pc = "analyze"
    /\ LET order  == [i \in 1..Len(vectorstore) |-> i]
           chunks == IF retr = "raise" THEN <<>>
                     ELSE search_similar_reports(vectorstore, order, FoundName, RetrievalK)
           analysis == AnalysisOf(chunks, llm)
           noted  == [ses EXCEPT
                        !.errs = @ \cup Noted(retr = "raise", "retrieval")
                                   \cup Noted(chunks # <<>> /\ llm \in {"quota", "error"}, "llm"),
                        !.acts = @ \cup {"retrieval"} \cup Noted(chunks # <<>>, "answer"),
                        !.llm = IF chunks # <<>> THEN llm ELSE ""]
       IN  ses' = AfterAnalysis(noted, analysis)
    /\ pc' = "done"
    /\ UNCHANGED <<runs, downloads, naverUp, faults, storeVars, pageVars, raceVars, appVars, fnVars, lr, lateVars>>

InitSession ==
    /\ runs = 0
    /\ pc = "idle"
    /\ ses = NewSession
    /\ downloads = [d \in AllDocs |-> 0]
    /\ naverUp = FALSE
    /\ faults = 0

Next ==
    \/ StartSession
    \/ \E found \in BOOLEAN : Identity(found)
    \/ \E c \in ClassifierOutcomes, l \in ListingOutcomes : SelectPrimary(c, l)
    \/ \E f \in SessionFetches(PrimaryId), o \in SessionAdds : Primary(f, o)
    \/ \E out \in SuppListings : SuppList(out)
    \/ \E f \in FetchOutcomes, o \in SessionAdds : SuppItem(f, o)
    \/ \E out \in CompanyCrawls : NaverCompany(out)
    \/ \E out \in IndustryCrawls : NaverIndustry(out)
    \/ \E o \in SessionAdds : SyncItem(o)
    \/ \E r \in {"ok", "raise"}, l \in LlmOutcomes : Analyze(r, l)

(***************************************************************************)
(* _extract_time_range, _recommend_report_types, get_reports               *)
(* (src/company_analyzer.py): question analysis                            *)
(***************************************************************************)
DefaultYears == 3
MaxYears     == 10
MinYears     == 1

\* the 'years' values a reply can carry
YearsValues == -1..12

\* the classifier's replies to the time-range prompt: the call raises, the text
\* has no {...} part, json.loads raises on it, the object has no 'years', its
\* 'years' is not a number (a string, null), or it is a number
YearsReplies ==
    {[kind |-> k, years |-> 0] : k \in {"raise", "nojson", "badjson", "missing", "nonnumeric"}}
        \cup {[kind |-> "years", years |-> y] : y \in YearsValues}

Min2(a, b) == IF b < a THEN b ELSE a
Max2(a, b) == IF b > a THEN b ELSE a

\* years = min(years, 10); years = max(years, 1)
ClampMut(years) == Min2(years, MaxYears)

Clamp(years) == Max2(Min2(years, MaxYears), MinYears)

extract_time_range(reply) ==
    CASE reply.kind = "years"      -> Clamp(reply.years)
      [] reply.kind = "missing"    -> Clamp(DefaultYears)
      [] reply.kind = "nonnumeric" -> DefaultYears      \* min() raises TypeError
      [] OTHER                     -> DefaultYears

DefaultTypes == <<"annual", "half">>

\* the classifier's replies to the report-type prompt: as above, with
\* 'recommended_types' missing, an empty list, or a list of types
TypesReplies ==
    {[kind |-> k, types |-> <<>>] : k \in {"raise", "nojson", "badjson", "missing", "empty"}}
        \cup {[kind |-> "types", types |-> l] : l \in TypeLists}

\* if not recommended_types, if not report_types
NoTypesMut(types) == FALSE

NoTypes(types) == types = <<>>

\* the first component of what _recommend_report_types returns
recommend_report_types(reply) ==
    IF reply.kind \in {"raise", "nojson", "badjson"} THEN DefaultTypes
    ELSE LET recommended_types == IF reply.kind = "missing" THEN <<>> ELSE reply.types
         IN  IF NoTypes(recommended_types) THEN DefaultTypes ELSE recommended_types

\* the report types get_reports lists with, called with report_types=None and a
\* user_query
target_types(reply) ==
    LET report_types == recommend_report_types(reply)
    IN  IF NoTypes(report_types) THEN DefaultTypes ELSE report_types

(***************************************************************************)
(* get_corp_code (src/company_analyzer.py): identity resolution            *)
(***************************************************************************)
MaxRegistry == 3          \* cap on the number of companies the registry file lists

\* names the registry lists, and the stock_code texts of an entry: none, blank, a ticker
CorpNames  == {"KT", "KTCS", "SK"}
StockCodes == {"", " ", "030200"}

\* the name a session asks about, and the replies of the name-variation call after
\* split(',') and strip(): the call raises, or gives a list of names
AskedNames == {"kt", "LG"}
VariationReplies ==
    {[raise |-> TRUE, list |-> <<>>]}
        \cup {[raise |-> FALSE, list |-> l] :
                 l \in {<<"kt">>, <<"KT", "kt">>, <<"CS">>, <<"SK", "KT">>, <<"">>, <<"LG", "SK">>}}

InSeq(x, q) == \E i \in 1..Len(q) : q[i] = x

\* _get_company_name_variations: the reply, with the asked name put first when the
\* reply does not have it; the asked name alone when the call raises
name_variations(company_name, reply) ==
    IF reply.raise THEN <<company_name>>
    ELSE IF InSeq(company_name, reply.list) THEN reply.list
    ELSE <<company_name>> \o reply.list

\* the registry file: companies with distinct corp_code, or no file when the
\* download or the parsing raises
Entry(i, name, stock) == [code |-> i, name |-> name, stock |-> stock]

Registries ==
    UNION {{[i \in 1..n |-> Entry(i, f[i][1], f[i][2])] :
               f \in [1..n -> CorpNames \X StockCodes]} : n \in 0..MaxRegistry}

\* variation.upper() in name.upper(), on the names used here
UpperIn(variation, name) ==
    \/ Upper(variation) = Upper(name)
    \/ variation = ""
    \/ Upper(variation) \in {"KT", "CS"} /\ Upper(name) = "KTCS"

\* c[2] and c[2].strip()
HasTicker(c) == c.stock \notin {"", " "}

\* the companies whose name equals the variation ignoring case, in file order
ExactOf(variation, registry) ==
    LET Eq(c) == Upper(c.name) = Upper(variation) IN SelectSeq(registry, Eq)

\* exact_matches: those of the first variation that has any
RECURSIVE ExactMatches(_, _)
ExactMatches(variations, registry) ==
    IF variations = <<>> THEN <<>>
    ELSE IF ExactOf(Head(variations), registry) # <<>>
         THEN ExactOf(Head(variations), registry)
         ELSE ExactMatches(Tail(variations), registry)

\* the number of variations the exact search went through
RECURSIVE ExactTried(_, _)
ExactTried(variations, registry) ==
    IF variations = <<>> THEN 0
    ELSE IF ExactOf(Head(variations), registry) # <<>> THEN 1
    ELSE 1 + ExactTried(Tail(variations), registry)

\* contains_matches: for every variation in order, the companies whose name
\* contains it, in file order, each corp_code once
RECURSIVE ContainsMatches(_, _, _)
ContainsMatches(variations, registry, acc) ==
    IF variations = <<>> THEN acc
    ELSE LET New(c) == UpperIn(Head(variations), c.name) /\ ~InSeq(c, acc)
         IN  ContainsMatches(Tail(variations), registry, acc \o SelectSeq(registry, New))

\* the first match that has a ticker, else the first match
PreferredMut(matches) == matches[1]

Preferred(matches) ==
    LET with_stock == SelectSeq(matches, HasTicker)
    IN  IF with_stock # <<>> THEN with_stock[1] ELSE matches[1]

get_corp_code_mut(variations, file) ==
    IF file.raise THEN NotFound
    ELSE IF ExactMatches(variations, file.list) # <<>>
         THEN Preferred(ExactMatches(variations, file.list))
    ELSE NotFound

get_corp_code(variations, file) ==
    IF file.raise THEN NotFound
    ELSE IF ExactMatches(variations, file.list) # <<>>
         THEN Preferred(ExactMatches(variations, file.list))
    ELSE IF ContainsMatches(variations, file.list, <<>>) # <<>>
         THEN Preferred(ContainsMatches(variations, file.list, <<>>))
    ELSE NotFound

RegistryFiles ==
    {[raise |-> TRUE, list |-> <<>>]} \cup {[raise |-> FALSE, list |-> l] : l \in Registries}

(***************************************************************************)
(* Two session threads in download_report on the shared VectorStore        *)
(* (src/app.py starts one thread per request; no lock is taken)            *)
(***************************************************************************)
Threads  == {"t1", "t2"}
RaceDocs == {"R1", "R3"}

Other(t) == IF t = "t1" THEN "t2" ELSE "t1"

OutsideCall == [at |-> "idle", doc |-> "", fetched |-> FALSE, text |-> NoText,
                rewrote |-> FALSE]

\* download_report, first part: the cache lookup; a hit returns the stored text
Lookup(t, rcept_no) ==
    /\ thr[t].at = "idle"
    /\ thr' = [thr EXCEPT ![t] =
                 IF CacheHit(metadata, rcept_no)
                 THEN [at |-> "returned", doc |-> rcept_no, fetched |-> FALSE,
                       text |-> get_report_from_cache(metadata, rcept_no), rewrote |-> FALSE]
                 ELSE [at |-> "fetching", doc |-> rcept_no, fetched |-> FALSE,
                       text |-> NoText, rewrote |-> FALSE]]
    /\ overlapped' = (overlapped \/ (/\ ~check_report_exists(metadata, rcept_no)
                                     /\ thr[Other(t)].at = "fetching"
                                     /\ thr[Other(t)].doc = rcept_no))
    /\ UNCHANGED <<storeVars, pageVars, sessionVars, fnVars, appVars, lr, lateVars>>

\* download_report, second part: the registry request, the extraction, add_report
Fetch(t, f, o) ==
    /\ thr[t].at = "fetching"
    /\ f \in SessionFetches(thr[t].doc)
    /\ IF ~f.raise /\ f.text # NoText
       THEN add_report(thr[t].doc, FoundName, f.text, o)
       ELSE UNCHANGED <<metadata, vectorstore, diskMeta, diskIndex>>
    /\ thr' = [thr EXCEPT ![t] = [at |-> "returned", doc |-> @.doc, fetched |-> ~f.raise,
                                  text |-> IF f.raise THEN NoText ELSE f.text,
                                  rewrote |-> /\ ~f.raise
                                              /\ f.text # NoText
                                              /\ check_report_exists(metadata, @.doc)]]
    /\ UNCHANGED <<overlapped, histVars, pageVars, sessionVars, fnVars, appVars, lr, lateVars>>

InitRace ==
    /\ thr = [t \in Threads |-> OutsideCall]
    /\ overlapped = FALSE

NextRace ==
    \/ \E t \in Threads, d \in RaceDocs : Lookup(t, d)
    \/ \E t \in Threads, f \in FetchOutcomes, o \in SessionAdds : Fetch(t, f, o)

(***************************************************************************)
(* Retrievals (src/vector_store.py) on the index the store operations leave *)
(***************************************************************************)
SearchKs == {1, 2}        \* the k of a retrieval

\* search_similar_reports as a caller sees it: the similarity search raises (the
\* embedding call of the query fails) and [] is returned, or the result is computed;
\* one retrieval is recorded for each index the store operations leave
Search ==
    /\ ~sr.done
    /\ \E company_name \in Filters, k \in SearchKs, order \in Perms(Len(vectorstore)),
          raises \in BOOLEAN :
          sr' = [done |-> TRUE, company_name |-> company_name, k |-> k, order |-> order,
                 raised |-> raises,
                 result |-> IF raises THEN <<>>
                            ELSE search_similar_reports(vectorstore, order, company_name, k)]
    /\ UNCHANGED <<storeVars, pageVars, sessionVars, raceVars, appVars, callVars, lr, lateVars>>

\* ingestions, rebuilds and resets whose saves succeed, and retrievals
NextSearch ==
    \/ \E d \in DartIds, o \in SessionAdds : AddReport(d, CompanyOf(d), TextOf(d), o)
    \/ RebuildIndex("ok")
    \/ ResetDatabase([meta |-> "ok", step |-> "ok"])
    \/ Search

\* the call of get_corp_code at the start of a session, for an asked name, a
\* reply of the name-variation call and a registry file
GetCorpCode ==
    /\ pc = "identity"
    /\ cc.run # runs
    /\ \E company_name \in AskedNames, reply \in VariationReplies, file \in RegistryFiles :
          LET variations == name_variations(company_name, reply)
          IN  cc' = [run |-> runs, variations |-> variations, file |-> file,
                     tried |-> IF file.raise THEN 0 ELSE ExactTried(variations, file.list),
                     result |-> get_corp_code(variations, file)]
    /\ UNCHANGED <<storeVars, pageVars, sessionVars, raceVars, appVars, sr, qa, lr, lateVars>>

\* if not corp_info: ... return result, with the value get_corp_code returned
ResolveIdentity ==
    /\ cc.run = runs
    /\ Identity(cc.result # NotFound)

\* years = self._extract_time_range(user_query)
ExtractTimeRange(reply) ==
    /\ pc = "select"
    /\ qa.stage = "start"
    /\ qa' = [qa EXCEPT !.stage = "years", !.years_kind = reply.kind,
                        !.years_given = reply.years,
                        !.years = extract_time_range(reply)]
    /\ UNCHANGED <<storeVars, pageVars, sessionVars, raceVars, appVars, sr, cc, lr, lateVars>>

\* report_types, _ = self._recommend_report_types(...) and the default after it
RecommendReportTypes(reply) ==
    /\ pc = "select"
    /\ qa.stage = "years"
    /\ qa' = [qa EXCEPT !.stage = "types", !.types_kind = reply.kind,
                        !.types = target_types(reply)]
    /\ UNCHANGED <<storeVars, pageVars, sessionVars, raceVars, appVars, sr, cc, lr, lateVars>>

\* how the two classifier calls went, for the stage that follows
ClassifierOutcome ==
    CASE qa.types_kind = "raise" \/ qa.years_kind = "raise"            -> "raise"
      [] qa.types_kind \in {"nojson", "badjson"}                        -> "unparseable"
      [] qa.types_kind \in {"missing", "empty"}                         -> "empty"
      [] qa.years_kind \in {"nojson", "badjson", "nonnumeric"}          -> "unparseable"
      [] OTHER                                                          -> "ok"

\* the listing with the types and the window found
ListReports(listing) ==
    /\ qa.stage = "types"
    /\ SelectPrimary(ClassifierOutcome, listing)

NextQuery ==
    \/ StartSession
    \/ Identity(TRUE)
    \/ \E r \in YearsReplies : ExtractTimeRange(r)
    \/ \E r \in TypesReplies : RecommendReportTypes(r)
    \/ \E l \in ListingOutcomes : ListReports(l)

InitFn == sr = NoSearch /\ cc = NoLookup /\ qa = NoQuery

NextCorp ==
    \/ StartSession
    \/ GetCorpCode
    \/ ResolveIdentity

(***************************************************************************)
(* The request handlers of src/app.py and the status plumbing of           *)
(* analyze_company: two sessions on the one shared analyzer                *)
(***************************************************************************)
SessionIds == {"a", "b"}

NoCallback == "no callback"      \* status_callback is None
\* analysis_results has no entry for the id
NoResult == [success |-> FALSE, error |-> "no entry"]

\* get_result's reply when it finds no result
NotFoundReply == [success |-> FALSE, error |-> "result not found"]

\* analyze_company has not returned
NotReturned == [success |-> FALSE, error |-> "not returned"]

\* what the external services make of a session: the company is not found at
\* stage 1, the pipeline runs to its end, or an exception escapes analyze_company
Outcomes == {"notfound", "ok", "raise"}

IdleJob == [at |-> "idle", callback |-> FALSE, outcome |-> "", ret |-> NotReturned]

ClosedStream == [at |-> "closed", status |-> 0, done |-> 0]

NoReply == [marker |-> FALSE, result |-> NotReturned]

\* status_callback of analyze_stream: the message goes on the queue of the
\* session the callback was made for; emitter is the session whose pipeline runs
Put(q, id, emitter, text) ==
    [q EXCEPT ![id] = Append(@, [from |-> emitter, text |-> text])]

IsMarker(m) == m.text \in {"__DONE__", "__ERROR__"}

\* update_status calls the callback only when one was supplied, and the callback,
\* a put on an unbounded Queue, returns: reporting never raises into the pipeline
CallbackRaisesMut(callback) == ~callback
CallbackRaises(callback) == FALSE

\* update_status of session id: through the callback the session was called with
update_status(q, id) ==
    IF job[id].callback THEN Put(q, id, id, "status") ELSE q

\* download_report's status lines: through the attribute of the shared analyzer
download_status(q, id) ==
    IF status_callback # NoCallback THEN Put(q, status_callback, id, "status") ELSE q

\* the record analyze_company returns
ResultOf(outcome) ==
    CASE outcome = "ok"       -> [success |-> TRUE, error |-> NoneValue]
      [] outcome = "notfound" -> [success |-> FALSE, error |-> "company not found"]
      [] OTHER                -> [success |-> FALSE, error |-> "raised"]

ErrorResult == [success |-> FALSE, error |-> "analysis error"]

\* analyze_stream: the queue of the session, its callback, the session thread
AnalyzeStream(id, outcome) ==
    /\ job[id].at = "idle"
    /\ status_queues' = status_queues \cup {id}
    /\ job' = [job EXCEPT ![id] = [at |-> "started", callback |-> TRUE,
                                   outcome |-> outcome, ret |-> NotReturned]]
    /\ UNCHANGED <<queue, sent, analysis_results, status_callback, stream, answered>>

\* analyze_company called without a status callback
DirectCall(id, outcome) ==
    /\ job[id].at = "idle"
    /\ job' = [job EXCEPT ![id] = [at |-> "started", callback |-> FALSE,
                                   outcome |-> outcome, ret |-> NotReturned]]
    /\ UNCHANGED <<queue, sent, status_queues, analysis_results, status_callback,
                   stream, answered>>

\* analyze_company up to get_corp_code: the attribute of the shared analyzer is
\* set to this session's callback, then stage 1 reports its start
Enter(id) ==
    /\ job[id].at = "started"
    /\ status_callback' = IF job[id].callback THEN id ELSE NoCallback
    /\ queue' = update_status(queue, id)
    /\ sent' = update_status(sent, id)
    /\ job' = [job EXCEPT ![id].at = "stage1"]
    /\ UNCHANGED <<status_queues, analysis_results, stream, answered>>

\* stage 1 ends: the session returns its error record, goes on, or an exception
\* leaves analyze_company; an exception out of the reporting itself is caught by
\* the handler of analyze_company
Stage1(id) ==
    /\ job[id].at = "stage1"
    /\ job' = [job EXCEPT ![id] =
                 CASE CallbackRaises(@.callback) -> [@ EXCEPT !.at = "returned", !.ret = ErrorResult]
                   [] @.outcome = "notfound"     -> [@ EXCEPT !.at = "returned", !.ret = ResultOf("notfound")]
                   [] @.outcome = "raise"        -> [@ EXCEPT !.at = "raised", !.ret = ResultOf("raise")]
                   [] OTHER                      -> [@ EXCEPT !.at = "download"]]
    /\ UNCHANGED <<queue, sent, status_queues, analysis_results, status_callback,
                   stream, answered>>

\* download_report on a cache miss: the line before the registry request
DownloadStart(id) ==
    /\ job[id].at = "download"
    /\ queue' = download_status(queue, id)
    /\ sent' = download_status(sent, id)
    /\ job' = [job EXCEPT ![id].at = "fetching"]
    /\ UNCHANGED <<status_queues, analysis_results, status_callback, stream, answered>>

\* download_report: the line after the document was fetched
DownloadEnd(id) ==
    /\ job[id].at = "fetching"
    /\ queue' = download_status(queue, id)
    /\ sent' = download_status(sent, id)
    /\ job' = [job EXCEPT ![id].at = "analysis"]
    /\ UNCHANGED <<status_queues, analysis_results, status_callback, stream, answered>>

\* the remaining stages: their status lines, then the record is returned
Finish(id) ==
    /\ job[id].at = "analysis"
    /\ queue' = update_status(queue, id)
    /\ sent' = update_status(sent, id)
    /\ job' = [job EXCEPT ![id].at = "returned", ![id].ret = ResultOf("ok")]
    /\ UNCHANGED <<status_queues, analysis_results, status_callback, stream, answered>>

\* run_analysis after analyze_company: the two statements of either branch
run_analysis_steps_mut == <<"marker", "result">>
run_analysis_steps == <<"result", "marker">>

\* an exception left analyze_company: the except branch of run_analysis runs
Raised(j) == j.ret = ResultOf("raise")

Ended(at) == at \in {"returned", "raised"}

RunAnalysisStep(id, step) ==
    IF step = "result"
    THEN /\ analysis_results' =
               [analysis_results EXCEPT ![id] =
                   IF Raised(job[id])
                   THEN [success |-> FALSE, error |-> "str(e)"]
                   ELSE job[id].ret]
         /\ UNCHANGED <<queue, sent>>
    ELSE /\ LET text == IF Raised(job[id])
                        THEN "__ERROR__" ELSE "__DONE__"
             IN  /\ queue' = Put(queue, id, id, text)
                 /\ sent' = Put(sent, id, id, text)
         /\ UNCHANGED analysis_results

\* run_analysis: the first statement after analyze_company returned or raised
RunAnalysisFirst(id) ==
    /\ job[id].callback
    /\ Ended(job[id].at)
    /\ RunAnalysisStep(id, run_analysis_steps[1])
    /\ job' = [job EXCEPT ![id].at = "half"]
    /\ UNCHANGED <<status_queues, status_callback, stream, answered>>

\* run_analysis: the second statement; the session thread ends
RunAnalysisSecond(id) ==
    /\ job[id].callback
    /\ job[id].at = "half"
    /\ RunAnalysisStep(id, run_analysis_steps[2])
    /\ job' = [job EXCEPT ![id].at = "over"]
    /\ UNCHANGED <<status_queues, status_callback, stream, answered>>

\* status_stream: the client connects; without a queue under the id the stream
\* is one error event
StatusStream(id) ==
    /\ stream[id].at = "closed"
    /\ stream' = [stream EXCEPT ![id].at = IF id \in status_queues THEN "open" ELSE "refused"]
    /\ UNCHANGED <<queue, sent, status_queues, analysis_results, status_callback,
                   job, answered>>

\* generate: one message is taken off the queue; a marker gives the 'done' event
\* and ends the loop, anything else gives a status event (a heartbeat, sent
\* while the queue is empty, changes nothing)
Generate(id) ==
    /\ stream[id].at = "open"
    /\ queue[id] # <<>>
    /\ queue' = [queue EXCEPT ![id] = Tail(@)]
    /\ stream' = [stream EXCEPT ![id] =
                    IF IsMarker(Head(queue[id]))
                    THEN [@ EXCEPT !.at = "stopped", !.done = @ + 1]
                    ELSE [@ EXCEPT !.status = @ + 1]]
    /\ UNCHANGED <<sent, status_queues, analysis_results, status_callback, job, answered>>

\* get_result: the stored record or not-found; the queue is unregistered
GetResultMut(id) ==
    /\ answered' = [answered EXCEPT ![id] =
                   [marker |-> \E i \in 1..Len(sent[id]) : IsMarker(sent[id][i]),
                    result |-> IF analysis_results[id] = NoResult
                               THEN NotFoundReply ELSE analysis_results[id]]]
    /\ status_queues' = status_queues \ {id}
    /\ UNCHANGED <<queue, sent, analysis_results, status_callback, job, stream>>

GetResult(id) ==
    /\ answered' = [answered EXCEPT ![id] =
                   [marker |-> \E i \in 1..Len(sent[id]) : IsMarker(sent[id][i]),
                    result |-> IF analysis_results[id] = NoResult
                               THEN NotFoundReply ELSE analysis_results[id]]]
    /\ status_queues' = IF analysis_results[id] = NoResult
                        THEN status_queues ELSE status_queues \ {id}
    /\ UNCHANGED <<queue, sent, analysis_results, status_callback, job, stream>>

InitApp ==
    /\ status_queues = {}
    /\ queue = [id \in SessionIds |-> <<>>]
    /\ sent = [id \in SessionIds |-> <<>>]
    /\ analysis_results = [id \in SessionIds |-> NoResult]
    /\ status_callback = NoCallback
    /\ job = [id \in SessionIds |-> IdleJob]
    /\ stream = [id \in SessionIds |-> ClosedStream]
    /\ answered = [id \in SessionIds |-> NoReply]

AppStep ==
    \/ \E id \in SessionIds, outcome \in Outcomes : AnalyzeStream(id, outcome)
    \/ \E id \in SessionIds, outcome \in Outcomes : DirectCall(id, outcome)
    \/ \E id \in SessionIds : Enter(id)
    \/ \E id \in SessionIds : Stage1(id)
    \/ \E id \in SessionIds : DownloadStart(id)
    \/ \E id \in SessionIds : DownloadEnd(id)
    \/ \E id \in SessionIds : Finish(id)
    \/ \E id \in SessionIds : RunAnalysisFirst(id)
    \/ \E id \in SessionIds : RunAnalysisSecond(id)
    \/ \E id \in SessionIds : StatusStream(id)
    \/ \E id \in SessionIds : Generate(id)
    \/ \E id \in SessionIds : GetResult(id)

NextApp == AppStep /\ UNCHANGED <<storeVars, pageVars, sessionVars, raceVars, fnVars, lr, lateVars>>

(***************************************************************************)
(* get_naver_reports_from_cache (src/vector_store.py) on a given Catalog   *)
(***************************************************************************)
MaxCached == 3            \* cap on the number of records of the Catalog queried

DateUnknown == "date_unknown"    \* the crawler's text for a row without a date cell

\* what a record has as its date: nothing, the crawler's text for no date, the
\* text of the date cell (YY.MM.DD), or, on another table layout, other cell text
CachedDates == {"", DateUnknown, "24.11.20", "25.01.03", "1532", "KB"}

ReportTitles == {"Telecom outlook", "Chip cycle"}
Keywords     == {"telecom", "5G", "chip"}
TagLists     == {<<>>, <<"5G">>}
KeywordLists == {<<>>, <<"telecom">>, <<"5G">>, <<"chip", "5G">>}

\* keyword.lower() in report_name.lower()
InTitle(keyword, report_name) ==
    \/ keyword = "telecom" /\ report_name = "Telecom outlook"
    \/ keyword = "chip" /\ report_name = "Chip cycle"

\* the Catalog records of the query model: rcept_no is <<prefix, rest>>
CachedRecords ==
    {[rcept_no |-> <<"NAVER_COMPANY", d>>, company_name |-> "KT",
      report_name |-> "Telecom outlook", date |-> d, industry_keywords |-> <<>>] :
        d \in CachedDates}
    \cup {[rcept_no |-> <<"NAVER_COMPANY", "sk">>, company_name |-> "SK",
           report_name |-> "Chip cycle", date |-> "24.11.20", industry_keywords |-> <<>>],
          [rcept_no |-> <<"DART", "R1">>, company_name |-> "KT",
           report_name |-> "Telecom outlook", date |-> "24.11.20", industry_keywords |-> <<>>]}
    \cup {[rcept_no |-> <<"NAVER_INDUSTRY", <<t, g>>>>, company_name |-> "KT",
           report_name |-> t, date |-> "24.11.20", industry_keywords |-> g] :
             t \in ReportTitles, g \in TagLists}

\* a Catalog: records under distinct ids, in insertion order
Catalogs ==
    {md \in UNION {[1..n -> CachedRecords] : n \in 0..MaxCached} :
        \A i, j \in 1..Len(md) : i # j => md[i].rcept_no # md[j].rcept_no}

\* the sort keys in ascending order of Python's string comparison
KeyOrder == <<"00.00.00", "1532", "24.11.20", "25.01.03", "KB">>

KeyRank(key) == CHOOSE i \in 1..Len(KeyOrder) : KeyOrder[i] = key

\* parse_date: the sort key of a date string
parse_date(date_str) ==
    IF date_str = "" \/ date_str = DateUnknown THEN "00.00.00" ELSE date_str

\* list.sort(key=..., reverse=True): descending by key, equal keys in their order
SortNewestFirst(reports) ==
    LET key(i) == KeyRank(parse_date(reports[i].date))
        place(i) == Cardinality({j \in 1..Len(reports) :
                                    key(j) > key(i) \/ (key(j) = key(i) /\ j < i)}) + 1
    IN  [n \in 1..Len(reports) |-> reports[CHOOSE i \in 1..Len(reports) : place(i) = n]]

\* meta.get('company_name') == company_name
SameCompany(stored, company_name) == stored = company_name

\* the loop over industry_keywords of one record
KeywordMatch(industry_keywords, r) ==
    \E k \in 1..Len(industry_keywords) :
        \/ InTitle(industry_keywords[k], r.report_name)
        \/ InSeq(industry_keywords[k], r.industry_keywords)

cached_reports(md, company_name, report_type, industry_keywords) ==
    LET Mine(r) ==
            /\ r.rcept_no[1] = report_type
            /\ IF report_type = "NAVER_COMPANY"
               THEN SameCompany(r.company_name, company_name)
               ELSE KeywordMatch(industry_keywords, r)
        hits == SelectSeq(md, Mine)
    IN  [i \in 1..Len(hits) |->
            [name |-> hits[i].report_name, date |-> hits[i].date, url |-> hits[i].rcept_no]]

\* get_naver_reports_from_cache with its sort
naver_reports_from_cache(md, company_name, report_type, industry_keywords) ==
    SortNewestFirst(cached_reports(md, company_name, report_type, industry_keywords))

NoCacheQuery == [done |-> FALSE, md |-> <<>>, company_name |-> "", report_type |-> "",
                 industry_keywords |-> <<>>, result |-> <<>>]

\* one call on a Catalog, for company reports or for industry reports
CacheQuery ==
    /\ ~nq.done
    /\ \E md \in Catalogs, company_name \in {"KT", "kt"},
          report_type \in {"NAVER_COMPANY", "NAVER_INDUSTRY"},
          industry_keywords \in KeywordLists :
          /\ report_type = "NAVER_COMPANY" => industry_keywords = <<>>
          /\ report_type = "NAVER_INDUSTRY" => company_name = "KT"
          /\ nq' = [done |-> TRUE, md |-> md, company_name |-> company_name,
                    report_type |-> report_type, industry_keywords |-> industry_keywords,
                    result |-> naver_reports_from_cache(md, company_name, report_type,
                                                        industry_keywords)]
    /\ UNCHANGED <<storeVars, pageVars, sessionVars, raceVars, fnVars, appVars, lr, hs, sp, rr, orch>>

NextCache == CacheQuery

(***************************************************************************)
(* The ids of brokerage reports over process restarts (analyze_company,    *)
(* stage 6, src/company_analyzer.py)                                       *)
(***************************************************************************)
\* hash() of a str is salted with a random seed chosen when the interpreter
\* starts (PYTHONHASHSEED unset): one seed per process
HashSeeds == {"h", "g"}

\* process restarts explored
MaxRestarts == 1

\* hash(report_url) in a process with the given seed
hash(seed, report_url) == seed \o report_url

\* rcept_no_hash = f"{report_type_prefix}_{hash(report_url)}"
rcept_no_hash(seed, report_type_prefix, report_url) ==
    report_type_prefix \o "_" \o hash(seed, report_url)

FirstProcess == [seed |-> "h", ids |-> [u \in CompanyUrls |-> {}], again |-> FALSE,
                 restarts |-> 0]

\* stage 6 for one crawled report with text: its id, the existence check, add_report
SaveNaverReport(report_url, o) ==
    LET id == rcept_no_hash(hs.seed, "NAVER_COMPANY", report_url)
    IN  /\ IF ~check_report_exists(metadata, id)
           THEN Fits(NaverText) /\ add_report(id, FoundName, NaverText, o)
           ELSE UNCHANGED <<metadata, vectorstore, diskMeta, diskIndex>>
        /\ hs' = [hs EXCEPT
                    !.ids[report_url] = IF check_report_exists(metadata', id)
                                        THEN @ \cup {id} ELSE @,
                    !.again = @ \/ (hs.ids[report_url] # {} /\ metadata' # metadata)]
        /\ clean' = (clean /\ (~check_report_exists(metadata, id) => o.embed = "ok"))
        /\ lastOp' = "add"
        /\ dlLog' = <<>>
        /\ sr' = NoSearch
        /\ UNCHANGED <<pageVars, sessionVars, raceVars, appVars, callVars, lr, nq, sp, rr, orch>>

\* the process ends; a new one loads the directory and has its own hash seed
ProcessRestart(seed) ==
    /\ hs.restarts < MaxRestarts
    /\ vectorstore' = LoadOrCreateVectorstore(diskIndex)
    /\ metadata' = LoadMetadata(diskMeta)
    /\ UNCHANGED <<diskMeta, diskIndex>>
    /\ hs' = [hs EXCEPT !.seed = seed, !.restarts = @ + 1,
                        !.ids = [u \in CompanyUrls |-> @[u] \cap Keys(metadata')]]
    /\ clean' = FALSE
    /\ lastOp' = "restart"
    /\ dlLog' = <<>>
    /\ sr' = NoSearch
    /\ UNCHANGED <<pageVars, sessionVars, raceVars, appVars, callVars, lr, nq, sp, rr, orch>>

NextHash ==
    \/ \E u \in CompanyUrls, o \in AddOutcomes : SaveNaverReport(u, o)
    \/ \E seed \in HashSeeds : ProcessRestart(seed)

(***************************************************************************)
(* text_splitter.split_text (src/vector_store.py): the recursive character *)
(* splitter with chunk_size CHUNK_SIZE and chunk_overlap CHUNK_OVERLAP     *)
(***************************************************************************)
MaxParas == 3             \* cap on the number of paragraphs of a text

SepLen == 2               \* len("\n\n"), the first separator of the splitter

\* a text is one word without any separator, or paragraphs without blank lines
\* in them, each shorter than a chunk, joined by "\n\n"; given by the lengths
ParLens  == {150, 300, 500, 800, 900}
WordLens == {400, 1000, 1001, 1900}

Texts ==
    {[kind |-> "word", lens |-> <<l>>] : l \in WordLens}
        \cup {[kind |-> "paragraphs", lens |-> ls] :
                 ls \in UNION {[1..n -> ParLens] : n \in 1..MaxParas}}

\* the position of the first and of the last character of a paragraph in the text
ParFrom(lens, i) == SumSeq(SubSeq(lens, 1, i - 1)) + SepLen * (i - 1) + 1
ParTo(lens, i)   == ParFrom(lens, i) + lens[i] - 1

TextLen(text) ==
    IF text.kind = "word" THEN text.lens[1] ELSE ParTo(text.lens, Len(text.lens))

\* the splits of a text with paragraphs: every paragraph but the first keeps
\* the separator in front of it
SplitLen(lens, i) == IF i = 1 THEN lens[i] ELSE lens[i] + SepLen

\* _join_docs of the splits a..b: their text without the white space at its
\* ends, as the positions of its first and last character
JoinDocs(lens, a, b) == [from |-> ParFrom(lens, a), to |-> ParTo(lens, b)]

\* _merge_splits, the inner while loop: splits are dropped from the front of the
\* current window while it is longer than the overlap, or too long for the next
RECURSIVE DropFront(_, _, _, _)
DropFront(lens, a, i, total) ==
    IF total > CHUNK_OVERLAP \/ (total + SplitLen(lens, i) > CHUNK_SIZE /\ total > 0)
    THEN DropFront(lens, a + 1, i, total - SplitLen(lens, a))
    ELSE [a |-> a, total |-> total]

\* _merge_splits from split i on: the current window is the splits a..i-1
RECURSIVE MergeSplits(_, _, _, _)
MergeSplits(lens, a, i, total) ==
    IF i > Len(lens)
    THEN IF a < i THEN <<JoinDocs(lens, a, i - 1)>> ELSE <<>>
    ELSE IF total + SplitLen(lens, i) > CHUNK_SIZE
         THEN LET kept == DropFront(lens, a, i, total)
              IN  (IF a < i THEN <<JoinDocs(lens, a, i - 1)>> ELSE <<>>)
                      \o MergeSplits(lens, kept.a, i + 1, kept.total + SplitLen(lens, i))
         ELSE MergeSplits(lens, a, i + 1, total + SplitLen(lens, i))

\* a word is split into its characters: windows of CHUNK_SIZE characters, each
\* starting CHUNK_SIZE - CHUNK_OVERLAP characters after the one before
WordChunks(len) ==
    [k \in 1..NumChunks(len) |->
        [from |-> (k - 1) * (CHUNK_SIZE - CHUNK_OVERLAP) + 1,
         to   |-> Min2(len, (k - 1) * (CHUNK_SIZE - CHUNK_OVERLAP) + CHUNK_SIZE)]]

split_text(text) ==
    IF text.kind = "word" THEN WordChunks(text.lens[1])
    ELSE MergeSplits(text.lens, 1, 1, 0)

NoSplit == [done |-> FALSE, text |-> [kind |-> "", lens |-> <<>>], chunks |-> <<>>]

\* add_report splits the text of a document
SplitText ==
    /\ ~sp.done
    /\ \E text \in Texts : sp' = [done |-> TRUE, text |-> text, chunks |-> split_text(text)]
    /\ UNCHANGED <<storeVars, pageVars, sessionVars, raceVars, fnVars, appVars, lr, nq, hs, rr, orch>>

NextSplit == SplitText

(***************************************************************************)
(* reset_database (request /reset_vectordb) while a session thread is in   *)
(* add_report: the statements of both, interleaved, on the shared store    *)
(***************************************************************************)
\* no thread is in add_report or in reset_database; object counts the FAISS
\* objects self.vectorstore has referred to, held is the one add_documents
\* was called on
NoThreads == [add |-> "idle", doc |-> "", held |-> 0, reset |-> "idle", object |-> 0,
              raced |-> FALSE]

Racing(other) == rr.raced \/ other # "idle"

\* a session thread calls add_report for a document the Catalog does not have;
\* self.vectorstore is evaluated for the add_documents call
AddBegin(rcept_no) ==
    /\ rr.add = "idle"
    /\ ~check_report_exists(metadata, rcept_no)
    /\ Fits(TextOf(rcept_no))
    /\ rr' = [rr EXCEPT !.add = "embedding", !.doc = rcept_no, !.held = rr.object,
                        !.raced = Racing(rr.reset)]
    /\ UNCHANGED storeVars

\* add_documents: the chunks are embedded and put in the FAISS object the call
\* was made on, which may no longer be self.vectorstore
AddDocuments ==
    /\ rr.add = "embedding"
    /\ vectorstore' = IF rr.held = rr.object
                      THEN vectorstore \o ReportDocuments(rr.doc, CompanyOf(rr.doc), TextOf(rr.doc))
                      ELSE vectorstore
    /\ rr' = [rr EXCEPT !.add = "record", !.raced = Racing(rr.reset)]
    /\ UNCHANGED <<metadata, diskMeta, diskIndex, histVars>>

\* self.metadata[rcept_no] = {...}
AddRecord ==
    /\ rr.add = "record"
    /\ metadata' = PutRecord(metadata, ReportRecord(rr.doc, CompanyOf(rr.doc), TextOf(rr.doc)))
    /\ rr' = [rr EXCEPT !.add = "save_index", !.raced = Racing(rr.reset)]
    /\ UNCHANGED <<vectorstore, diskMeta, diskIndex, histVars>>

\* _save_vectorstore
AddSaveIndex ==
    /\ rr.add = "save_index"
    /\ diskIndex' = OnDisk(vectorstore)
    /\ rr' = [rr EXCEPT !.add = "save_meta", !.raced = Racing(rr.reset)]
    /\ UNCHANGED <<metadata, vectorstore, diskMeta, histVars>>

\* _save_metadata; add_report returns
AddSaveMeta ==
    /\ rr.add = "save_meta"
    /\ diskMeta' = OnDisk(metadata)
    /\ rr' = [rr EXCEPT !.add = "idle", !.raced = Racing(rr.reset)]
    /\ UNCHANGED <<metadata, vectorstore, diskIndex, histVars>>

\* reset_database, step 1: self.metadata = {}
ResetMetadata ==
    /\ rr.reset = "idle"
    /\ metadata' = EmptyMetadata
    /\ rr' = [rr EXCEPT !.reset = "save_meta", !.raced = Racing(rr.add)]
    /\ UNCHANGED <<vectorstore, diskMeta, diskIndex, histVars>>

\* reset_database, step 1: _save_metadata
ResetSaveMeta ==
    /\ rr.reset = "save_meta"
    /\ diskMeta' = OnDisk(metadata)
    /\ rr' = [rr EXCEPT !.reset = "remove", !.raced = Racing(rr.add)]
    /\ UNCHANGED <<metadata, vectorstore, diskIndex, histVars>>

\* reset_database, step 2: the index files are removed
ResetRemove ==
    /\ rr.reset = "remove"
    /\ diskIndex' = Absent
    /\ rr' = [rr EXCEPT !.reset = "create", !.raced = Racing(rr.add)]
    /\ UNCHANGED <<metadata, vectorstore, diskMeta, histVars>>

\* reset_database, step 3: self.vectorstore = _load_or_create_vectorstore()
ResetCreate ==
    /\ rr.reset = "create"
    /\ vectorstore' = LoadOrCreateVectorstore(diskIndex)
    /\ rr' = [rr EXCEPT !.reset = "idle", !.object = 1 - @, !.raced = Racing(rr.add)]
    /\ UNCHANGED <<metadata, diskMeta, diskIndex, histVars>>

ResetStep ==
    \/ \E d \in DartIds : AddBegin(d)
    \/ AddDocuments
    \/ AddRecord
    \/ AddSaveIndex
    \/ AddSaveMeta
    \/ ResetMetadata
    \/ ResetSaveMeta
    \/ ResetRemove
    \/ ResetCreate

NextReset ==
    ResetStep /\ UNCHANGED <<pageVars, sessionVars, raceVars, fnVars, appVars, lr, nq, hs, sp, orch>>

(***************************************************************************)
(* LLMOrchestrator: register_provider, set_task_routing, select_provider   *)
(***************************************************************************)
None == "None"

\* get_name() of the provider classes
ProviderNames == {"gemini", "midm", "claude"}

\* get_capabilities()['supports_long_context'] of the provider classes
supports_long_context(name) == name \in {"gemini", "claude"}

\* the task types the callers pass
TaskTypes == {"query_analysis", "long_context_analysis", "name_variation"}

\* __init__: providers is a dict, here its keys in insertion order; flagged is
\* the provider of the last register_provider call made with is_default
NewOrchestrator ==
    [providers |-> <<>>, default_provider |-> None,
     task_routing |-> [t \in TaskTypes |-> None], flagged |-> None,
     ret |-> [op |-> "init", task |-> None, name |-> None, out |-> None]]

Registered(providers) == {providers[i] : i \in 1..Len(providers)}

\* self.providers[name] = provider: a new key goes last, a known key keeps its place
providers_after(providers, name) ==
    IF name \in Registered(providers) THEN providers ELSE Append(providers, name)

default_after_mut(default_provider, name, is_default) ==
    IF is_default THEN name ELSE default_provider

default_after(default_provider, name, is_default) ==
    IF is_default \/ default_provider = None THEN name ELSE default_provider

RegisterProvider(name, is_default) ==
    /\ orch' = [orch EXCEPT
                   !.providers = providers_after(@, name),
                   !.default_provider = default_after(@, name, is_default),
                   !.flagged = IF is_default THEN name ELSE @,
                   !.ret = [op |-> "register_provider", task |-> None, name |-> name,
                            out |-> "ok"]]

set_task_routing_mut(o, task_type, provider_name) ==
    [raised |-> provider_name \notin Registered(o.providers),
     task_routing |-> [o.task_routing EXCEPT ![task_type] = provider_name]]

\* raised: ValueError; task_routing: the routing table after the call
set_task_routing(o, task_type, provider_name) ==
    IF provider_name \notin Registered(o.providers)
    THEN [raised |-> TRUE, task_routing |-> o.task_routing]
    ELSE [raised |-> FALSE,
          task_routing |-> [o.task_routing EXCEPT ![task_type] = provider_name]]

SetTaskRouting(task_type, provider_name) ==
    LET r == set_task_routing(orch, task_type, provider_name) IN
    /\ orch' = [orch EXCEPT
                   !.task_routing = r.task_routing,
                   !.ret = [op |-> "set_task_routing", task |-> task_type,
                            name |-> provider_name,
                            out |-> IF r.raised THEN "ValueError" ELSE "ok"]]

\* the registered providers that support long context, in registration order
LongContext(providers) == SelectSeq(providers, supports_long_context)

select_provider_mut(o, task_type) ==
    IF task_type # None /\ o.task_routing[task_type] # None
    THEN o.task_routing[task_type]
    ELSE IF o.default_provider # None /\ o.default_provider \in Registered(o.providers)
    THEN o.default_provider
    ELSE IF o.providers # <<>> THEN o.providers[1]
    ELSE "RuntimeError"

\* the name of the provider returned, or the exception raised
select_provider(o, task_type) ==
    IF task_type # None /\ o.task_routing[task_type] # None
    THEN IF o.task_routing[task_type] \in Registered(o.providers)
         THEN o.task_routing[task_type] ELSE "KeyError"
    ELSE IF task_type = "long_context_analysis" /\ LongContext(o.providers) # <<>>
    THEN LongContext(o.providers)[1]
    ELSE IF o.default_provider # None /\ o.default_provider \in Registered(o.providers)
    THEN o.default_provider
    ELSE IF o.providers # <<>> THEN o.providers[1]
    ELSE "RuntimeError"

SelectProvider(task_type) ==
    /\ orch' = [orch EXCEPT
                   !.ret = [op |-> "select_provider", task |-> task_type, name |-> None,
                            out |-> select_provider(orch, task_type)]]

OrchStep ==
    \/ \E name \in ProviderNames, is_default \in BOOLEAN : RegisterProvider(name, is_default)
    \/ \E t \in TaskTypes, name \in ProviderNames : SetTaskRouting(t, name)
    \/ \E t \in TaskTypes \cup {None} : SelectProvider(t)

NextOrch ==
    OrchStep /\ UNCHANGED <<storeVars, pageVars, sessionVars, raceVars, fnVars, appVars, lr,
                            nq, hs, sp, rr>>

(***************************************************************************)
(* Specifications                                                          *)
(***************************************************************************)
InitLate == nq = NoCacheQuery /\ hs = FirstProcess /\ sp = NoSplit /\ rr = NoThreads
            /\ orch = NewOrchestrator

Init == InitStore /\ InitPages /\ InitSession /\ InitRace /\ InitFn /\ InitApp /\ InitPrimary /\ InitLate

SpecStore == Init /\ [][NextStore]_vars

SpecFetch == Init /\ [][NextFetch]_vars

SpecPut == Init /\ [][NextPut]_vars

SpecPages == Init /\ [][NextPages]_vars

SpecPrimary == Init /\ [][NextPrimary]_vars

Spec == Init /\ [][Next]_vars

SpecRace == Init /\ [][NextRace]_vars

SpecSearch == Init /\ [][NextSearch]_vars

SpecCorp == Init /\ [][NextCorp]_vars

SpecQuery == Init /\ [][NextQuery]_vars

SpecApp == Init /\ [][NextApp]_vars

SpecCache == Init /\ [][NextCache]_vars

SpecHash == Init /\ [][NextHash]_vars

SpecSplit == Init /\ [][NextSplit]_vars

SpecReset == Init /\ [][NextReset]_vars

SpecOrch == Init /\ [][NextOrch]_vars

(***************************************************************************)
(* Claims about the store                                                  *)
(***************************************************************************)
\* the last two download_report calls were made one after the other for the
\* same id, absent from the Catalog before the first, both with full provenance
TwoCallsOnAbsent ==
    /\ Len(dlLog) = 2
    /\ dlLog[1].doc = dlLog[2].doc
    /\ dlLog[1].absent
    /\ dlLog[1].prov /\ dlLog[2].prov

Count(b) == IF b THEN 1 ELSE 0

OneFetchOneWrite ==
    /\ Count(dlLog[1].fetched) + Count(dlLog[2].fetched) = 1
    /\ Count(dlLog[1].wrote) + Count(dlLog[2].wrote) = 1
    /\ ~dlLog[2].fetched
    /\ dlLog[2].ret = dlLog[1].ret

C3_NoHalfIndexed ==
    \A i \in 1..Len(metadata) :
        Len(EntriesOf(vectorstore, metadata[i].rcept_no)) = metadata[i].num_chunks

ZeroStats ==
    [total_reports |-> 0, total_chunks |-> 0, total_size_chars |-> 0, num_companies |-> 0]

ResetDone == lastOp \in {"reset_true", "reset_false"}

BothFetched ==
    /\ overlapped
    /\ \A t \in Threads : thr[t].at = "returned" /\ thr[t].fetched
    /\ thr["t1"].doc = thr["t2"].doc

\* C2: when two concurrent sessions need the same document that is not in the
\* Catalog, at most one of them performs the registry fetch
C2_AtMostOneFetch == ~BothFetched

(***************************************************************************)
(* Claims about analysis sessions                                          *)
(***************************************************************************)
\* C6: over any sequence of sessions on one store every document is downloaded
\* from its source at most once, and a brokerage report that is in the Catalog is
\* never downloaded again
C6_DownloadedAtMostOnce ==
    /\ \A d \in AllDocs : downloads[d] <= 1
    /\ ~ses.again

FatalStages == {"identity", "empty_document"}

\* C7: when stage 1 finds no company or stage 4 yields no text the session has
\* returned at once with success = false and a non-empty error, and no
\* supplementary fetch, write, retrieval or answer generation took place
C7_FatalStagesReturnAtOnce ==
    ses.fatal \in FatalStages =>
        /\ pc = "done"
        /\ ~ses.success
        /\ ses.error \notin {NoneValue, ""}
        /\ ses.acts = {}
        /\ ses.analysis = NoneValue

C7_Witness ==
    /\ pc = "done"
    /\ ses.fatal = "empty_document"
    /\ ses.error = "report_unreadable"
    /\ runs = 2

\* C8 as stated: a session that ended with success = false failed at stage 1 or at
\* stage 4
C8_OnlyStages1And4Fail ==
    (pc = "done" /\ ~ses.success) => ses.fatal \in FatalStages

\* C8 amended: a session ends with success = false exactly when stage 1 found no
\* company, stage 3 had no candidate (a listing failure included) or stage 4 had
\* no text; classifier, supplementary source, index write, retrieval and
\* language-model failures are caught and the session ends with success = true
C8_CaughtErrorsContinue ==
    pc = "done" =>
        /\ ses.fatal = "" => ses.success
        /\ ~ses.success => ses.fatal \in FatalStages \cup {"no_candidates"}
        /\ ses.success => ses.fatal = ""

C8_Witness ==
    /\ pc = "done"
    /\ ses.success
    /\ {"classifier", "supplementary", "index_write", "llm"} \subseteq ses.errs

LaterStages == {"supp_registry", "naver_company", "naver_industry", "sync", "retrieval"}

\* the session passed stages 1 to 4 and every call to the brokerage source raised
BrokerageDown == pc = "done" /\ ses.fatal = "" /\ ~naverUp

\* C9 as stated: with a brokerage source that raises on every call a session whose
\* stages 1-4 succeed ends with success = true, a non-empty analysis and empty
\* brokerage lists; a failing supplementary source stops no other source or stage
C9_BrokerageDownNonEmptyAnalysis ==
    /\ BrokerageDown =>
           /\ ses.success
           /\ ses.analysis \notin {NoneValue, ""}
           /\ ses.naver_company = <<>> /\ ses.naver_industry = <<>>
    /\ (pc = "done" /\ ses.fatal = "") => LaterStages \subseteq ses.acts

\* C9 amended: as C9, with the analysis text present, and non-empty unless the
\* answer generator itself returned an empty text
C9_BrokerageDownStillCompletes ==
    /\ BrokerageDown =>
           /\ ses.success
           /\ ses.analysis # NoneValue
           /\ ses.llm # "empty" => ses.analysis # ""
           /\ ses.naver_company = <<>> /\ ses.naver_industry = <<>>
    /\ (pc = "done" /\ ses.fatal = "") => LaterStages \subseteq ses.acts

C9_Witness ==
    /\ BrokerageDown
    /\ ~ses.company_from_cache /\ ~ses.industry_from_cache
    /\ "supplementary" \in ses.errs
    /\ ses.analysis = "answer"
    /\ "write" \in ses.acts

(***************************************************************************)
(* Claims about the listing pagination                                     *)
(***************************************************************************)
NoListedMatch ==
    \A i \in 1..Len(pg.all_reports) : ~Matches(pg.report_types, pg.all_reports[i])

\* C10: get_reports makes at most max_pages listing requests whatever the registry
\* answers, every iteration makes one request and returns or moves to the next
\* page, and the call returns no candidate when no listed name matches a type
C10_PaginationTerminates ==
    /\ pg.requests <= max_pages
    /\ pg.status = "loop" => (pg.page_no <= max_pages /\ pg.requests = pg.page_no - 1)
    /\ (pg.status = "returned" /\ NoListedMatch) => pg.result = <<>>
    /\ pg.status = "returned" =>
           pg.result \in {<<>>, Filtered(pg.report_types, pg.all_reports)}

C10_Witness ==
    /\ pg.status = "returned"
    /\ pg.requests = max_pages
    /\ Len(pg.all_reports) = max_pages
    /\ NoListedMatch
    /\ pg.result = <<>>

(***************************************************************************)
(* Claims about retrieval                                                  *)
(***************************************************************************)
\* the index entries by ascending distance to the query of the recorded retrieval
Ranked == [i \in 1..Len(vectorstore) |-> vectorstore[sr.order[i]]]

\* ranks among the 3k nearest whose entry passes the company filter, if one is set
Hits ==
    {i \in 1..Len(vectorstore) :
        /\ i <= 3 * sr.k
        /\ sr.company_name # "" => Upper(Ranked[i].company_name) = Upper(sr.company_name)}

HitsBefore(i) == Cardinality({j \in Hits : j < i})

\* the result is the first k hits, by ascending rank
ExactResult ==
    LET first == {i \in Hits : HitsBefore(i) < sr.k}
    IN  /\ Len(sr.result) = Cardinality(first)
        /\ \A i \in first : sr.result[HitsBefore(i) + 1] = Ranked[i]

\* C11 as stated: every retrieval returns the first k of the 3k nearest entries
\* that pass the company filter, in ascending distance order
C11_AlwaysExactResult == sr.done => ExactResult

\* C11 amended: a retrieval returns the first k of the 3k nearest entries that pass
\* the company filter (equality ignoring case), in ascending distance order, unless
\* the similarity search raises, when it returns the empty list; the result never
\* has more than k pairs
C11_ExactResultUnlessRaised ==
    sr.done =>
        /\ Len(sr.result) <= sr.k
        /\ IF sr.raised THEN sr.result = <<>> ELSE ExactResult

\* a retrieval with k = 1 whose filter dropped the nearest entry and kept a later one
C11_Witness ==
    /\ sr.done /\ ~sr.raised
    /\ sr.k = 1
    /\ sr.company_name = "kt"
    /\ Len(vectorstore) = 4
    /\ Ranked[1].company_name = "SK"
    /\ Len(sr.result) = 1

\* C12: every chunk a retrieval with a company filter returns carries a
\* company_name equal to the filter ignoring case
C12_FilterCorrect ==
    (sr.done /\ sr.company_name # "") =>
        \A j \in 1..Len(sr.result) :
            Upper(sr.result[j].company_name) = Upper(sr.company_name)

\* a filtered retrieval that returned two chunks from an index holding another company
C12_Witness ==
    /\ sr.done
    /\ sr.company_name = "SK"
    /\ Len(sr.result) = 2
    /\ \E i \in 1..Len(vectorstore) : vectorstore[i].company_name = "KT"

(***************************************************************************)
(* Claims about the end of a session                                       *)
(***************************************************************************)
\* the session made its retrieval on an index without an entry of its company
RetrievedNothing ==
    /\ pc = "done"
    /\ "retrieval" \in ses.acts
    /\ \A i \in 1..Len(vectorstore) :
           Upper(vectorstore[i].company_name) # Upper(FoundName)

\* C13: a session whose retrieval finds no matching content ends with success =
\* true and the fixed no-evidence text as analysis, without a call of the answer
\* generator and without an error
C13_EmptyRetrievalIsNormalEnd ==
    RetrievedNothing =>
        /\ ses.success
        /\ ses.analysis = "no_evidence_message"
        /\ "answer" \notin ses.acts
        /\ ses.llm = ""
        /\ ses.error = NoneValue

\* the primary text was fetched, its writes failed, and the retrieval ran on an
\* index holding only the placeholder
C13_Witness ==
    /\ RetrievedNothing
    /\ ses.report_content # NoText
    /\ "index_write" \in ses.errs
    /\ "retrieval" \notin ses.errs
    /\ vectorstore = <<InitEntry>>

(***************************************************************************)
(* Identity resolution claims (SpecCorp)                                   *)
(***************************************************************************)
Looked == cc.run # 0 /\ ~cc.file.raise

\* the companies of the registry file read by the call
Listed == {cc.file.list[i] : i \in 1..Len(cc.file.list)}

EqualsVariant(c, j) == Upper(c.name) = Upper(cc.variations[j])

\* the positions of the variations some listed company equals
ExactHits == {j \in 1..Len(cc.variations) : \E c \in Listed : EqualsVariant(c, j)}

FirstHit == CHOOSE j \in ExactHits : \A i \in ExactHits : j <= i

\* C14: when some variation equals a listed name ignoring case, get_corp_code
\* returns a listed company whose name equals the first such variation, it has
\* searched no variation after that one, and the company returned carries a
\* ticker if any listed company of that name does
C14_FirstExactVariantWins ==
    (Looked /\ ExactHits # {}) =>
        /\ cc.result \in Listed
        /\ EqualsVariant(cc.result, FirstHit)
        /\ cc.tried = FirstHit
        /\ (\E c \in Listed : EqualsVariant(c, FirstHit) /\ HasTicker(c)) => HasTicker(cc.result)

\* a later variation is the first with an exact match, an earlier company of
\* that name has no ticker and a later one has, and a still later variation
\* matches too
C14_Witness ==
    /\ Looked
    /\ ExactHits # {}
    /\ FirstHit > 1
    /\ \E j \in ExactHits : j > FirstHit
    /\ \E a, b \in Listed :
          /\ a.code < b.code
          /\ EqualsVariant(a, FirstHit) /\ ~HasTicker(a)
          /\ EqualsVariant(b, FirstHit) /\ HasTicker(b)
    /\ cc.result # cc.file.list[1]

ContainsVariant(c, j) == UpperIn(cc.variations[j], c.name)

\* the listed companies whose name contains some variation
ContainsHits == {c \in Listed : \E j \in 1..Len(cc.variations) : ContainsVariant(c, j)}

\* C15: when no variation equals a listed name, get_corp_code returns a listed
\* company whose name contains a variation, one with a ticker if any such
\* company has one; when no listed name contains a variation either it returns
\* not-found, and the session then ends with the company-not-found error
C15_ContainsFallbackOrNotFound ==
    /\ (cc.run # 0 /\ ExactHits = {}) =>
          IF ContainsHits # {}
          THEN /\ cc.result \in ContainsHits
               /\ (\E c \in ContainsHits : HasTicker(c)) => HasTicker(cc.result)
          ELSE cc.result = NotFound
    /\ (cc.run # 0 /\ cc.run = runs /\ cc.result = NotFound /\ pc # "identity") =>
          /\ pc = "done"
          /\ ses.error = "company_not_found"
          /\ ~ses.success

\* no exact match, a company without ticker containing a variation is listed
\* before one with a ticker, and the later one is returned
C15_Witness ==
    /\ cc.run # 0
    /\ ExactHits = {}
    /\ \E a, b \in ContainsHits : a.code < b.code /\ ~HasTicker(a) /\ HasTicker(b) /\ cc.result = b
    /\ \E c \in Listed : c \notin ContainsHits

\* no listed name equals or contains a variation, and the session has ended
C15_NotFoundWitness ==
    /\ cc.run = runs
    /\ cc.run # 0
    /\ ~cc.file.raise
    /\ Listed # {}
    /\ cc.result = NotFound
    /\ pc = "done"
    /\ ses.error = "company_not_found"

(***************************************************************************)
(* Question analysis claims (SpecQuery)                                    *)
(***************************************************************************)
\* C16: whatever the classifier replies, the window is between 1 and 10 years;
\* it is 3 when the call fails, the reply cannot be parsed or has no 'years',
\* and 10 when the reply's 'years' is 10 or more
C16_WindowClamped ==
    qa.stage # "start" =>
        /\ 1 <= qa.years /\ qa.years <= 10
        /\ qa.years_kind \in {"raise", "nojson", "badjson", "missing"} => qa.years = 3
        /\ (qa.years_kind = "years" /\ qa.years_given >= 10) => qa.years = 10

\* a reply asked for more than ten years and the session went on with ten
C16_Witness ==
    /\ qa.stage = "types"
    /\ qa.years_kind = "years"
    /\ qa.years_given > 10
    /\ qa.years = 10
    /\ pc = "primary"

Fallback == qa.types_kind \in {"raise", "nojson", "badjson", "missing", "empty"}

\* C17: when the report-type classifier fails, cannot be parsed or names no
\* type, the listing uses the default types (annual, half-year); the types are
\* never empty; and a session whose listing finds a filing goes on to stage 3
\* with no error in its result
C17_DefaultTypesOnFallback ==
    qa.stage = "types" =>
        /\ qa.types # <<>>
        /\ Fallback => qa.types = <<"annual", "half">>
        /\ (Fallback /\ pc \notin {"select", "done"}) =>
              /\ pc = "primary"
              /\ ses.error = NoneValue
              /\ ses.fatal = ""

\* the classifier returned an empty list and the session is at stage 3
C17_Witness ==
    /\ qa.stage = "types"
    /\ qa.types_kind = "empty"
    /\ qa.types = <<"annual", "half">>
    /\ pc = "primary"
    /\ ses.error = NoneValue

(***************************************************************************)
(* Write claims (SpecRace, Spec)                                           *)
(***************************************************************************)
\* C18: no thread in download_report calls add_report for an id the Catalog has
C18_AddOnlyAbsentIds == \A t \in Threads : ~thr[t].rewrote

\* C18, sessions one after another: a session never calls add_report for an id
\* the Catalog has, and a session all of whose documents were in the Catalog
\* already ends with the Catalog and the Vector Index as they were
C18_NoRewriteInSequence ==
    /\ ~ses.rewrote
    /\ (pc \in {"analyze", "done"} /\ ~ses.missed) => ~ses.changed

\* a finished session that found every document in the Catalog
C18_AllHitsSession ==
    /\ pc = "done"
    /\ ses.success
    /\ ~ses.missed
    /\ ses.additional # <<>>
    /\ "sync" \in ses.acts
    /\ Keys(metadata) # {}

\* the session is over and download_report's add_report for the primary
\* document did not store it
PrimaryWriteLost == pc = "done" /\ ses.lost

\* C19: a session whose write of the primary document failed is not ended by
\* that; it reaches retrieval and answer synthesis and ends with success = true
C19_WriteFailureStillAnswers ==
    PrimaryWriteLost =>
        /\ ses.fatal = ""
        /\ ses.success
        /\ "retrieval" \in ses.acts
        /\ "answer" \in ses.acts

\* the write failed, the retrieval did not raise, and no answer was synthesized
C19_NoAnswerAfterLostWrite ==
    /\ PrimaryWriteLost
    /\ ses.success
    /\ "retrieval" \notin ses.errs
    /\ "answer" \notin ses.acts
    /\ ses.analysis = "no_evidence_message"

(***************************************************************************)
(* Answer generator claims (Spec)                                          *)
(***************************************************************************)
\* C20: when the answer generator raises a quota or rate-limit error, the
\* session still returns: it ends without a fatal stage, and the analysis of
\* its result is the message that describes the quota condition
C20_QuotaGivesDegradedAnswer ==
    (pc = "done" /\ ses.llm = "quota") =>
        /\ ses.analysis = "quota_message"
        /\ ses.fatal = ""
        /\ ses.error = NoneValue
        /\ ses.success

\* a session whose answer generator was called with retrieved chunks and
\* raised the quota error
C20_Witness ==
    /\ pc = "done"
    /\ ses.llm = "quota"
    /\ "answer" \in ses.acts
    /\ "llm" \in ses.errs
    /\ ses.analysis = "quota_message"

\* C21: when the answer generator raises an error that is not a quota error,
\* the result of the session is marked as an error (success = false or an
\* error text), not as a plain success
C21_OtherLlmErrorIsMarked ==
    (pc = "done" /\ ses.llm = "error") =>
        (~ses.success \/ ses.error # NoneValue)

(***************************************************************************)
(* Concurrent ingestion claims (SpecRace)                                  *)
(***************************************************************************)
\* both threads have returned from download_report for the same id, which was
\* not in the Catalog when they looked it up
BothIngested ==
    /\ overlapped
    /\ \A t \in Threads : thr[t].at = "returned"
    /\ thr["t1"].doc = thr["t2"].doc

\* C22: after two threads have ingested the same new id at the same time, the
\* Catalog has at most one record for the id and the index holds exactly that
\* record's num_chunks entries for it
C22_ConcurrentIngestNotDuplicated ==
    BothIngested =>
        LET d == thr["t1"].doc
        IN  /\ Cardinality({i \in 1..Len(metadata) : metadata[i].rcept_no = d}) <= 1
            /\ check_report_exists(metadata, d) =>
                  Len(EntriesOf(vectorstore, d)) = Record(metadata, d).num_chunks

(***************************************************************************)
(* Status channel and result claims (SpecApp)                              *)
(***************************************************************************)
\* C23: every status message placed on a session's status queue was emitted by
\* that session's own pipeline, never by another session running at the same
\* time on the shared analyzer
C23_StatusFromOwnPipeline ==
    \A id \in SessionIds : \A i \in 1..Len(sent[id]) : sent[id][i].from = id

MarkersOf(id) == {i \in 1..Len(sent[id]) : IsMarker(sent[id][i])}

\* C24: a started session whose pipeline returned or raised has exactly one
\* terminal marker on its queue and no status message after it, and its status
\* stream gives one 'done' event on reading the marker and then stops
C24_OneMarkerThenSilence ==
    \A id \in SessionIds :
        /\ (job[id].callback /\ job[id].at = "over") =>
               /\ Cardinality(MarkersOf(id)) = 1
               /\ IsMarker(sent[id][Len(sent[id])])
        /\ stream[id].done <= 1
        /\ stream[id].done = 1 <=> stream[id].at = "stopped"

\* the part of C24 that the code keeps: one marker per ended session, put by the
\* session itself, and one 'done' event, after which the stream has stopped
C24_OneMarkerOneDone ==
    \A id \in SessionIds :
        /\ (job[id].callback /\ job[id].at = "over") =>
               /\ Cardinality(MarkersOf(id)) = 1
               /\ \A i \in MarkersOf(id) : sent[id][i].from = id
        /\ stream[id].done <= 1
        /\ stream[id].done = 1 <=> stream[id].at = "stopped"

C24_StoppedAfterDone ==
    \E id \in SessionIds : stream[id].at = "stopped" /\ stream[id].status > 0

\* the record run_analysis stores for a session that has ended
TerminalRecord(id) ==
    IF Raised(job[id]) THEN [success |-> FALSE, error |-> "str(e)"] ELSE job[id].ret

\* C25: once the terminal marker of a session is on its queue, get_result
\* answers with the terminal record of the session and never with not-found
C25_ResultBeforeMarker ==
    \A id \in SessionIds :
        answered[id].marker =>
            /\ answered[id].result # NotFoundReply
            /\ answered[id].result = TerminalRecord(id)

C25_Witness ==
    /\ answered["a"].marker /\ answered["a"].result.success
    /\ answered["b"].marker /\ answered["b"].result = [success |-> FALSE, error |-> "str(e)"]

C26_UnreadWitness ==
    /\ job["a"].callback /\ ~job["b"].callback
    /\ job["a"].ret = ResultOf("ok") /\ job["b"].ret = ResultOf("ok")
    /\ stream["a"].at = "closed" /\ Len(queue["a"]) > 2

(***************************************************************************)
(* Claims about overwriting and about the index against the Catalog        *)
(***************************************************************************)
\* C27: a write for an id that is in the Catalog, with a text other than the
\* stored one, leaves the stored record and the Vector Index as they were
C27_StoredDocumentNeverOverwritten ==
    [][lastOp' = "put_again" => (metadata' = metadata /\ vectorstore' = vectorstore)]_vars

\* the chunk entries of the index: every entry but the placeholder of a new index
ChunkIds(vs) == {vs[i].rcept_no : i \in {j \in 1..Len(vs) : vs[j].kind = "chunk"}}

\* C28: every chunk entry in the Vector Index carries an id that is in the
\* Catalog, after any sequence of add_report, delete_report, rebuild_index,
\* reset_database and load
C28_NoEntryWithoutDocument == ChunkIds(vectorstore) \subseteq Keys(metadata)

Mutating == lastOp \in {"add", "delete", "rebuild", "reset_true", "reset_false"}

\* C29: after a completed add_report, delete_report, rebuild_index or
\* reset_database, the saved Catalog and the saved Index hold the same documents,
\* and loading them gives the Catalog and Index of before
C29_PersistedPairAgrees ==
    Mutating =>
        /\ ChunkIds(LoadOrCreateVectorstore(diskIndex)) = Keys(LoadMetadata(diskMeta))
        /\ LoadMetadata(diskMeta) = metadata
        /\ LoadOrCreateVectorstore(diskIndex) = vectorstore

\* C29 without failed saves: every save so far succeeded and the last operation
\* was delete_report
C29_AgreesAfterDelete ==
    (lastOp = "delete" /\ diskMeta = OnDisk(metadata)) =>
        ChunkIds(LoadOrCreateVectorstore(diskIndex)) = Keys(LoadMetadata(diskMeta))

(***************************************************************************)
(* Claims about the primary filing (SpecPrimary)                           *)
(***************************************************************************)
\* the listed filings whose name has one of the report types looked for
NameMatching ==
    {i \in 1..Len(lr.all_reports) :
        Matches(lr.report_types, lr.all_reports[i].report_nm)}

PageAdded == SubSeq(pg'.all_reports, Len(pg.all_reports) + 1, Len(pg'.all_reports))

\* the collected reports with a name that has one of the report types, in order
MatchingListed(all_reports, report_types) ==
    LET hits == {i \in 1..Len(all_reports) :
                    \E t \in 1..Len(report_types) : TypeIn(report_types[t], all_reports[i])}
        before(i) == Cardinality({j \in hits : j < i})
    IN  [n \in 1..Cardinality(hits) |->
            all_reports[CHOOSE i \in hits : before(i) = n - 1]]

\* C31: the k-th listing request of a get_reports call asks for page k; the call
\* goes on to a further page only after a non-empty page of a successful answer
\* without a name-matching report; what it returns is the name-matching reports
\* of the pages fetched, in listing order
C31_PagesInOrderUntilMatch ==
    [][pg'.requests = pg.requests + 1 =>
          /\ pg.page_no = pg.requests + 1
          /\ pg'.status = "loop" =>
                /\ PageAdded # <<>>
                /\ MatchingListed(PageAdded, pg.report_types) = <<>>
                /\ pg'.page_no = pg.page_no + 1
          /\ pg'.status = "returned" =>
                pg'.result = MatchingListed(pg'.all_reports, pg.report_types)]_vars

\* the first page had no matching report, the second one has: two requests, and
\* the matching report of the second page is the result
C31_Witness ==
    /\ pg.status = "returned"
    /\ pg.requests = 2
    /\ pg.all_reports = <<"notice", "notice", "annual_2023">>
    /\ pg.result = <<"annual_2023">>

(***************************************************************************)
(* Claims about the brokerage cache query (SpecCache)                      *)
(***************************************************************************)
\* a date the portal prints: YY.MM.DD
ValidDate(d) == d \in {"24.11.20", "25.01.03"}

\* C32: the records come back newest first, and every record whose date is
\* missing or is no date comes after every record with a valid date
C32_SortedNewestFirstInvalidLast ==
    nq.done =>
        \A i, j \in 1..Len(nq.result) :
            i < j =>
                /\ (ValidDate(nq.result[i].date) /\ ValidDate(nq.result[j].date)) =>
                       KeyRank(nq.result[i].date) >= KeyRank(nq.result[j].date)
                /\ ~(~ValidDate(nq.result[i].date) /\ ValidDate(nq.result[j].date))

\* the part of C32 the code keeps: records without a date ("" or the crawler's
\* text for no date) come after every other record, valid dates are newest first
C32_MissingDatesLast ==
    nq.done =>
        \A i, j \in 1..Len(nq.result) :
            i < j =>
                /\ (ValidDate(nq.result[i].date) /\ ValidDate(nq.result[j].date)) =>
                       KeyRank(nq.result[i].date) >= KeyRank(nq.result[j].date)
                /\ nq.result[i].date \in {"", DateUnknown} =>
                       nq.result[j].date \in {"", DateUnknown}

Returned == {nq.result[i].url : i \in 1..Len(nq.result)}

IdsOf(records) == {nq.md[i].rcept_no : i \in records}

\* C33: a company query returns exactly the brokerage-company records whose
\* company name equals the given one ignoring case; an industry query returns
\* exactly the brokerage-industry records with a given keyword in title or tags
C33_ExactFilter ==
    nq.done =>
        /\ Len(nq.result) = Cardinality(Returned)
        /\ Returned =
             IF nq.report_type = "NAVER_COMPANY"
             THEN IdsOf({i \in 1..Len(nq.md) :
                            /\ nq.md[i].rcept_no[1] = "NAVER_COMPANY"
                            /\ Upper(nq.md[i].company_name) = Upper(nq.company_name)})
             ELSE IdsOf({i \in 1..Len(nq.md) :
                            /\ nq.md[i].rcept_no[1] = "NAVER_INDUSTRY"
                            /\ \E k \in 1..Len(nq.industry_keywords) :
                                  \/ InTitle(nq.industry_keywords[k], nq.md[i].report_name)
                                  \/ InSeq(nq.industry_keywords[k], nq.md[i].industry_keywords)})

\* C33 with the company name compared as the code compares it, case included
C33_ExactFilterSameCase ==
    nq.done =>
        /\ Len(nq.result) = Cardinality(Returned)
        /\ Returned =
             IF nq.report_type = "NAVER_COMPANY"
             THEN IdsOf({i \in 1..Len(nq.md) :
                            /\ nq.md[i].rcept_no[1] = "NAVER_COMPANY"
                            /\ nq.md[i].company_name = nq.company_name})
             ELSE IdsOf({i \in 1..Len(nq.md) :
                            /\ nq.md[i].rcept_no[1] = "NAVER_INDUSTRY"
                            /\ \E k \in 1..Len(nq.industry_keywords) :
                                  \/ InTitle(nq.industry_keywords[k], nq.md[i].report_name)
                                  \/ InSeq(nq.industry_keywords[k], nq.md[i].industry_keywords)})

(***************************************************************************)
(* Claims about the chunk entries of a document (SpecStore)                *)
(***************************************************************************)
\* the entries are those of one document cut into Len(entries) chunks: indexes
\* 0 .. n-1, each once, every entry with total_chunks = n
DenseChunks(entries) ==
    /\ \A k \in 0..(Len(entries) - 1) :
          Cardinality({i \in 1..Len(entries) : entries[i].chunk_index = k}) = 1
    /\ \A i \in 1..Len(entries) :
          /\ entries[i].total_chunks = Len(entries)
          /\ entries[i].rcept_no = entries[1].rcept_no

\* the entries the add_report of this step put in the index
Created == SubSeq(vectorstore', Len(vectorstore) + 1, Len(vectorstore'))

\* C34: the entries add_report creates for a document, and the entries
\* rebuild_index creates for each document, have chunk_index 0 .. n-1, each
\* once, and total_chunks = n, and the Catalog record has num_chunks = n
C34_ChunkIndexesDense ==
    [][/\ (lastOp' = "add" /\ vectorstore' # vectorstore) =>
             /\ DenseChunks(Created)
             /\ Record(metadata', Created[1].rcept_no).num_chunks = Len(Created)
       /\ (lastOp' = "rebuild" /\ vectorstore' # vectorstore) =>
             \A i \in 1..Len(metadata') :
                 LET entries == EntriesOf(vectorstore', metadata'[i].rcept_no)
                 IN  /\ entries # <<>>
                     /\ DenseChunks(entries)
                     /\ metadata'[i].num_chunks = Len(entries)]_vars

\* the index was rebuilt from a Catalog with a document of two chunks: the
\* document has its two entries, the second with chunk_index 1
C34_Witness ==
    /\ lastOp = "rebuild"
    /\ check_report_exists(metadata, "R2")
    /\ Len(EntriesOf(vectorstore, "R2")) = 2
    /\ EntriesOf(vectorstore, "R2")[2].chunk_index = 1

(***************************************************************************)
(* Claims about the ids of brokerage reports (SpecHash)                    *)
(***************************************************************************)
\* C35: a URL is given the same id in every session and after a process
\* restart: a brokerage report that is in the Catalog is not stored again, and
\* the Catalog holds it under one id only
C35_OneIdPerUrl ==
    /\ \A u \in CompanyUrls : Cardinality(hs.ids[u]) <= 1
    /\ ~hs.again

(***************************************************************************)
(* Claims about the splitter (SpecSplit)                                   *)
(***************************************************************************)
\* no chunk is empty, the first chunk starts the text, the last one ends it
CoversEnds ==
    /\ sp.chunks # <<>>
    /\ \A k \in 1..Len(sp.chunks) : sp.chunks[k].from <= sp.chunks[k].to
    /\ sp.chunks[1].from = 1
    /\ sp.chunks[Len(sp.chunks)].to = TextLen(sp.text)

\* every chunk after the first, without its first CHUNK_OVERLAP characters,
\* goes on where the chunk before it ended
JoinsWithoutOverlap ==
    \A k \in 2..Len(sp.chunks) : sp.chunks[k].from + CHUNK_OVERLAP = sp.chunks[k - 1].to + 1

\* C36: the chunks of a non-empty text, in order and without the first
\* CHUNK_OVERLAP characters of every chunk but the first, give the text again;
\* no chunk is empty and the end of the text is not dropped
C36_ChunksReconstructText == sp.done => (CoversEnds /\ JoinsWithoutOverlap)

\* the part of C36 the splitter keeps for every text
C36_ChunksCoverEnds == sp.done => CoversEnds

\* C36 for a text without separators
C36_WordReconstructs ==
    (sp.done /\ sp.text.kind = "word") => (CoversEnds /\ JoinsWithoutOverlap)

(***************************************************************************)
(* Claims about reset_database during an add_report (SpecReset)            *)
(***************************************************************************)
\* C37: after reset_database and an add_report that ran at the same time have
\* both completed, a document is in the Catalog exactly when its chunk entries
\* are in the Index
C37_AgreeAfterConcurrentReset ==
    (rr.raced /\ rr.add = "idle" /\ rr.reset = "idle") =>
        \A d \in DartIds :
            check_report_exists(metadata, d) <=> EntriesOf(vectorstore, d) # <<>>

\* without overlap of the two operations the Catalog and the Index agree
C37_AgreeWithoutOverlap ==
    (~rr.raced /\ rr.add = "idle" /\ rr.reset = "idle") =>
        \A d \in DartIds :
            check_report_exists(metadata, d) <=> EntriesOf(vectorstore, d) # <<>>

(***************************************************************************)
(* Claims about the provider orchestrator (SpecOrch)                       *)
(***************************************************************************)
Selected == orch.ret.op = "select_provider"

Routed(t) == t # None /\ orch.task_routing[t] # None

\* C38: select_provider(task) returns the provider routed to the task when the
\* routing table has the task; otherwise, for the long-context task, the first
\* registered provider that supports long context; otherwise the default
\* provider; otherwise the first registered provider; it raises only when no
\* provider is registered
C38_FallbackChain ==
    Selected =>
        LET t   == orch.ret.task
            out == orch.ret.out
            long == {i \in 1..Len(orch.providers) : supports_long_context(orch.providers[i])}
        IN  /\ Routed(t) => out = orch.task_routing[t]
            /\ (~Routed(t) /\ t = "long_context_analysis" /\ long # {}) =>
                   \E i \in long : /\ out = orch.providers[i]
                                    /\ \A j \in long : i <= j
            /\ (~Routed(t) /\ ~(t = "long_context_analysis" /\ long # {})) =>
                   IF orch.default_provider # None THEN out = orch.default_provider
                   ELSE IF orch.providers # <<>> THEN out = orch.providers[1]
                   ELSE out = "RuntimeError"
            /\ out \notin ProviderNames <=> (out = "RuntimeError" /\ orch.providers = <<>>)

\* the long-context task, not routed, goes to a provider other than the default
\* one and other than the first registered one
C38_Witness ==
    /\ Selected /\ orch.ret.task = "long_context_analysis" /\ ~Routed(orch.ret.task)
    /\ orch.ret.out \in ProviderNames
    /\ orch.ret.out # orch.default_provider
    /\ orch.ret.out # orch.providers[1]

\* a routed task goes to its routed provider, which is not the default one
C38_WitnessRouted ==
    /\ Selected /\ Routed(orch.ret.task)
    /\ orch.ret.out = orch.task_routing[orch.ret.task]
    /\ orch.ret.out # orch.default_provider

\* every routed name and the default name are registered; a default is set exactly
\* when a provider is registered: the last one registered with is_default, or
\* else the first registered one
ConsistentNames ==
    /\ \A t \in TaskTypes :
           orch.task_routing[t] # None => orch.task_routing[t] \in Registered(orch.providers)
    /\ orch.default_provider # None <=> orch.providers # <<>>
    /\ orch.default_provider # None =>
           /\ orch.default_provider \in Registered(orch.providers)
           /\ orch.default_provider =
                  IF orch.flagged # None THEN orch.flagged ELSE orch.providers[1]

\* a set_task_routing call that names an unregistered provider raises ValueError
\* and leaves the routing table as it was
UnregisteredRaises ==
    (orch'.ret.op = "set_task_routing" /\ orch'.ret.name \notin Registered(orch.providers)) =>
        /\ orch'.ret.out = "ValueError"
        /\ orch'.task_routing = orch.task_routing

\* C39: after any sequence of register_provider and set_task_routing calls the
\* routed names and the default name are registered providers, a default is set
\* exactly when a provider is registered (the first registered one unless a later
\* one was registered with is_default), and set_task_routing naming an
\* unregistered provider raises ValueError and leaves the routing table unchanged
C39_RegisteredNames == []ConsistentNames /\ [][UnregisteredRaises]_vars

\* a rejected set_task_routing call on an orchestrator that has a routed task and
\* a default that is not the first registered provider
C39_Witness ==
    /\ orch.ret.op = "set_task_routing" /\ orch.ret.out = "ValueError"
    /\ \E t \in TaskTypes : orch.task_routing[t] # None
    /\ Len(orch.providers) > 1
    /\ orch.default_provider # orch.providers[1]

(***************************************************************************)
(* Claims about get_result (SpecApp)                                       *)
(***************************************************************************)
\* a get_result reply for the session arrives in this step
Replied(id) == answered'[id] # answered[id]

\* C40: get_result for a session with no stored result returns the not-found
\* error and leaves the session's status queue in place; a status queue is
\* removed only by a get_result call that returns a stored result; a stored
\* result stays stored and later get_result calls return it
C40_GetResult ==
    [][\A id \in SessionIds :
          /\ (Replied(id) /\ analysis_results[id] = NoResult) =>
                 /\ answered'[id].result = NotFoundReply
                 /\ status_queues' = status_queues
          /\ (id \in status_queues /\ id \notin status_queues') =>
                 /\ analysis_results[id] # NoResult
                 /\ answered'[id].result = analysis_results[id]
          /\ analysis_results[id] # NoResult => analysis_results'[id] # NoResult
          /\ (Replied(id) /\ analysis_results[id] # NoResult) =>
                 answered'[id].result = analysis_results'[id]]_vars

\* one session was answered not-found and still has its status queue, the other
\* was answered with its stored result and has no status queue any more
C40_Witness ==
    \E a, b \in SessionIds :
        /\ answered[a].result = NotFoundReply /\ analysis_results[a] = NoResult
        /\ a \in status_queues
        /\ analysis_results[b] # NoResult /\ answered[b].result = analysis_results[b]
        /\ b \notin status_queues
====
